---- MODULE Spec2Model ----
(***************************************************************************)
(* A model of nanobot's Telegram channel (nanobot/channels/telegram.py):   *)
(* the connection loop of TelegramChannel.start, stop, send with its       *)
(* per-chunk fallback, the inbound handler and the typing tasks, the       *)
(* chunker _split_long_message with its helpers and the renderer           *)
(* _markdown_to_telegram_html; and of the session store                   *)
(* (nanobot/session/manager.py): the LRU cache and the files of            *)
(* SessionManager, and a Session with its file.                            *)
(*                                                                         *)
(* The coroutines run on one asyncio event loop: the code between two      *)
(* awaits is atomic, and every await is a point where another coroutine    *)
(* may run.  An action below is the completion of one await together with  *)
(* the synchronous code that follows it, up to the next await.  Every      *)
(* platform call ends "ok", with a Conflict or with another error; a call  *)
(* that fails changes nothing.                                             *)
(*                                                                         *)
(* telegram.py line 272 is a leftover merge marker; the code on both       *)
(* sides of it is modelled as it stands: the connection sequence of lines  *)
(* 227-269 followed by the retry loop of lines 273-424.                    *)
(***************************************************************************)
EXTENDS Integers, Sequences, FiniteSets, TLC

\* ---- bounds of the model
MaxApps == 3        \* Applications one start() may build
MaxTasks == 2       \* typing tasks created in one run
MaxChunks == 2      \* chunks of one outbound message
MaxCount == 14      \* consecutive-failure counts the backoff functions are applied to
MaxTokens == 4      \* tokens of a text passed to _split_long_message
MaxLimit == 8       \* largest max_length passed to _split_long_message
MaxIter == 5        \* iterations of the loop of _split_long_message that are followed
MaxPlainLen == 8    \* characters of a text without markup passed to _split_long_message
MaxMdTokens == 4    \* tokens of a text passed to _markdown_to_telegram_html
MaxCacheSize == 2   \* largest max_cache_size of a SessionManager
MaxMessages == 2    \* messages of a Session
MaxNow == 4         \* readings of the clock by the operations on a Session
MaxSessionApps == 2 \* Applications start() may build in HandlerSpec and SessionSpec

\* ---- constants of the program
max_retries == 3
ConflictBase == 30
ConflictCap == 600
GenericCap == 300
UnexpectedCap == 60

Chats == {"c1"}
MediaKinds == {"none", "image", "voice", "audio", "file"}
Outcomes == {"ok", "conflict", "error"}
TdOutcomes == {"ok", "error"}
SendOutcomes == {"ok", "parse", "other"}
Tasks == 1..MaxTasks
TeardownOrder == <<"updater.stop", "app.stop", "app.shutdown">>

VARIABLES
  token,                \* config.token is set
  _running,             \* BaseChannel._running
  _polling_started,     \* the ready flag
  _app,                 \* the transport handle: the number of the Application, 0 for None
  nApps,                \* Applications built so far
  app_initialized,      \* self._app was initialized and not shut down
  app_running,          \* self._app was started and not stopped
  updater_running,      \* self._app.updater.running
  td_begun,             \* a cleanup call on self._app has ended
  leaked,               \* Applications no longer referenced that were left started
  start_pc,             \* where start() is suspended
  retry_count,
  consecutive_failures,
  recov,                \* the recovery branch start() is in
  recov_app,            \* the handle at the transition into recovery
  recov_td,             \* cleanup calls start() made on it in this recovery
  waits,                \* the last two backoff waits since the last successful
                        \* start_polling: <<kind, seconds>>, the newest last
  stop_pc,              \* where stop() is suspended
  stop_in_backoff,      \* stop() was requested while start() was in a backoff wait
  send_pc,              \* where send() is suspended
  send_i,               \* index of the chunk being sent
  send_n,               \* chunks of the message
  send_refusable,       \* at entry of send(): handle None, ready flag false, start() in
                        \* a backoff wait or stop() done
  send_attempted,       \* chunks for which a platform send call was issued
  send_err,             \* chunks whose HTML send failed with a non-markup error
  send_late,            \* a send call was issued with the ready flag false or cleanup begun
  send_log,             \* the tiers of _safe_send_message entered for chunk send_i, in
                        \* order: <<tier, outcome>>, "pending" while the call is awaited,
                        \* "nohandle" when self._app was None and no call was made
  send_exc,             \* "none"; "caught": an exception left _safe_send_message and
                        \* send() handled it; "escaped": an exception left send()
  send_chat,            \* msg.chat_id of the send() entered last
  send_mark,            \* the typing tasks created before that send() was entered: 1..send_mark
  _typing_tasks,        \* chat_id -> task, 0 for no entry
  nTasks,
  task_state,           \* "none", "run", "cancelled", "done"
  hm_pc,                \* where _on_message is suspended
  hm_chat,
  hm_media,             \* media_type while the media block runs, "none" outside it
  hm_typing,            \* _start_typing was called for the update being handled
  hm_content,           \* what content_parts holds for the media: "none", "ref" for
                        \* [type: path], "transcript", "failed" for [type: download failed]
  hm_failed,            \* get_file, download or transcribe raised for the update
  hm_forwards,          \* calls of _handle_message for the update
  bk_n,                 \* backoff functions: the failure count
  bk_conflict,          \* conflict backoff applied at bk_n, -1 before
  bk_generic,           \* generic backoff applied at bk_n, -1 before
  bk_prev,              \* <<conflict, generic>> backoff applied at bk_n - 1
  ck_pc,                \* _split_long_message: "idle", "call", "loop", "done"
  ck_text,              \* its argument text, a sequence of characters
  ck_limit,             \* its argument max_length
  ck_remaining,         \* remaining
  ck_chunks,            \* chunks
  ck_iter,              \* iterations of its loop so far
  ck_split,             \* split_pos of the last iteration after line 55, -1 before
  ck_before,            \* len(remaining) at the head of the last iteration
  md_pc,                \* _markdown_to_telegram_html: "idle", "call", "extract",
                        \* "transform", "restore", "done"
  md_in,                \* its argument text, a sequence of characters
  md_text,              \* text
  code_blocks,          \* code_blocks
  inline_codes,         \* inline_codes
  _cache,               \* SessionManager._cache: the keys in the order of the
                        \* OrderedDict, the oldest first
  max_cache_size,       \* SessionManager.max_cache_size, 0 while no manager exists
  sm_files,             \* the sessions directory: for each file name the key of the
                        \* session last written to it, NoKey while the file does not exist
  sm_evicted,           \* the key the last operation, a get_or_create that returned,
                        \* popped at line 102; NoKey otherwise
  sm_raised,            \* the last operation raised
  session,              \* the Session a caller of the SessionManager works on: its key,
                        \* messages, created_at, updated_at, metadata, last_consolidated
  st_file,              \* the lines of the session's file, <<>> while there is no file
  st_cached,            \* the session is in the manager's cache
  st_now,               \* the clock datetime.now() reads
  st_trip,              \* how far the sequence save, invalidate, get_or_create has got:
                        \* "none", "saved", "invalidated", "loaded"
  st_saved,             \* the session as it was at the last save
  st_history            \* the last call of get_history: its argument and its result

appVars == <<_app, nApps, app_initialized, app_running, updater_running, td_begun, leaked>>
startVars == <<start_pc, retry_count, consecutive_failures, recov, recov_app, recov_td, waits>>
stopVars == <<stop_pc, stop_in_backoff>>
sendVars == <<send_pc, send_i, send_n, send_refusable, send_attempted, send_err, send_late,
              send_log, send_exc, send_chat, send_mark>>
typingVars == <<_typing_tasks, nTasks, task_state>>
hmVars == <<hm_pc, hm_chat, hm_media, hm_typing, hm_content, hm_failed, hm_forwards>>
bkVars == <<bk_n, bk_conflict, bk_generic, bk_prev>>
ckVars == <<ck_pc, ck_text, ck_limit, ck_remaining, ck_chunks, ck_iter, ck_split, ck_before>>
mdVars == <<md_pc, md_in, md_text, code_blocks, inline_codes>>
smVars == <<_cache, max_cache_size, sm_files, sm_evicted, sm_raised>>
stVars == <<session, st_file, st_cached, st_now, st_trip, st_saved, st_history>>
vars == <<token, _running, _polling_started, appVars, startVars, stopVars, sendVars,
          typingVars, hmVars, bkVars, ckVars, mdVars, smVars, stVars>>

Min(a, b) == IF a <= b THEN a ELSE b

ConflictBackoff_uncapped(n) == ConflictBase * (2 ^ (n - 1))

\* ---- the backoff functions of start(): lines 389-390, 419, 357
ConflictBackoff(n) == Min(ConflictBase * (2 ^ (n - 1)), ConflictCap)

GenericBackoff(n) == Min(2 ^ n, GenericCap)

UnexpectedBackoff(n) == Min(2 ^ n, UnexpectedCap)

BackoffOf(kind, n) ==
  IF kind = "conflict" THEN ConflictBackoff(n)
  ELSE IF kind = "error" THEN GenericBackoff(n)
  ELSE UnexpectedBackoff(n)

\* ---- the state after TelegramChannel.__init__
ChannelInit ==
  /\ _running = FALSE
  /\ _polling_started = FALSE
  /\ _app = 0
  /\ nApps = 0
  /\ app_initialized = FALSE
  /\ app_running = FALSE
  /\ updater_running = FALSE
  /\ td_begun = FALSE
  /\ leaked = {}
  /\ start_pc = "idle"
  /\ retry_count = 0
  /\ consecutive_failures = 0
  /\ recov = "none"
  /\ recov_app = 0
  /\ recov_td = <<>>
  /\ waits = <<>>
  /\ stop_pc = "idle"
  /\ stop_in_backoff = FALSE
  /\ send_pc = "idle"
  /\ send_i = 0
  /\ send_n = 0
  /\ send_refusable = FALSE
  /\ send_attempted = {}
  /\ send_err = {}
  /\ send_late = FALSE
  /\ send_log = <<>>
  /\ send_exc = "none"
  /\ send_chat = "c1"
  /\ send_mark = 0
  /\ _typing_tasks = [c \in Chats |-> 0]
  /\ nTasks = 0
  /\ task_state = [t \in Tasks |-> "none"]
  /\ hm_pc = "idle"
  /\ hm_chat = "c1"
  /\ hm_media = "none"
  /\ hm_typing = FALSE
  /\ hm_content = "none"
  /\ hm_failed = FALSE
  /\ hm_forwards = 0

BackoffIdle ==
  /\ bk_n = 0
  /\ bk_conflict = -1
  /\ bk_generic = -1
  /\ bk_prev = <<-1, -1>>

\* _split_long_message is not running
ChunkerIdle ==
  /\ ck_pc = "idle"
  /\ ck_text = <<>>
  /\ ck_limit = 0
  /\ ck_remaining = <<>>
  /\ ck_chunks = <<>>
  /\ ck_iter = 0
  /\ ck_split = -1
  /\ ck_before = 0

\* no key
NoKey == <<>>

\* no SessionManager exists
ManagerIdle ==
  /\ _cache = <<>>
  /\ max_cache_size = 0
  /\ sm_files = <<>>
  /\ sm_evicted = NoKey
  /\ sm_raised = FALSE

\* no Session exists
StoreIdle ==
  /\ session = <<>>
  /\ st_file = <<>>
  /\ st_cached = FALSE
  /\ st_now = 0
  /\ st_trip = "none"
  /\ st_saved = <<>>
  /\ st_history = <<>>

\* _markdown_to_telegram_html is not running
RendererIdle ==
  /\ md_pc = "idle"
  /\ md_in = <<>>
  /\ md_text = <<>>
  /\ code_blocks = <<>>
  /\ inline_codes = <<>>

Init ==
  /\ token \in BOOLEAN
  /\ ChannelInit
  /\ BackoffIdle
  /\ ChunkerIdle
  /\ RendererIdle
  /\ ManagerIdle
  /\ StoreIdle

\* the Applications that are started (application or updater running) and not torn down
LiveApps == leaked \cup (IF _app # 0 /\ (app_running \/ updater_running) THEN {_app} ELSE {})

\* self._app stops referencing its Application: it is leaked if still started
Dropped == IF _app # 0 /\ (app_running \/ updater_running) THEN leaked \cup {_app} ELSE leaked

\* the log of backoff waits with one more wait
Logged(w, kind, seconds) ==
  IF Len(w) < 2 THEN Append(w, <<kind, seconds>>) ELSE <<w[2], <<kind, seconds>>>>

\* ---- start(): what the actions of start() leave alone
StartFrame == UNCHANGED <<token, _running, stopVars, sendVars, typingVars, hmVars, bkVars, ckVars, mdVars, smVars, stVars>>

KeepRunning_always == TRUE

\* the condition of the retry loop, line 273
KeepRunning == _running

\* the exception an awaited call on self._app ends with, "ok" for none: a call on
\* a handle that stop() has set to None is an AttributeError
Raised(o) == IF _app = 0 THEN "error" ELSE o

\* the code after the cleanup of a recovery branch, up to its sleep or to the loop head:
\* lines 355-359, 386-400, 417-424.  cf, rc and w are the counters and the log so far.
AfterTeardown(kind, cf, rc, w) ==
  IF kind = "unexpected"
  THEN /\ start_pc' = "backoff"
       /\ consecutive_failures' = cf + 1
       /\ retry_count' = rc
       /\ waits' = Logged(w, kind, BackoffOf(kind, cf + 1))
  ELSE IF _running
  THEN /\ start_pc' = "backoff"
       /\ consecutive_failures' = cf
       /\ retry_count' = IF kind = "conflict" /\ rc >= max_retries THEN 0 ELSE rc
       /\ waits' = Logged(w, kind, BackoffOf(kind, cf))
  ELSE /\ start_pc' = "loop_head"
       /\ consecutive_failures' = cf
       /\ retry_count' = rc
       /\ waits' = w

\* the head of a recovery branch, up to its first cleanup call: lines 342-348,
\* 362-379, 403-410
EnterRecovery(kind, w) ==
  LET cf == IF kind = "unexpected" THEN consecutive_failures ELSE consecutive_failures + 1
      rc == IF kind = "conflict" THEN retry_count + 1 ELSE retry_count
  IN /\ _polling_started' = FALSE
     /\ recov' = kind
     /\ recov_app' = _app
     /\ recov_td' = <<>>
     /\ IF _app # 0
        THEN /\ start_pc' = "td_updater_stop"
             /\ consecutive_failures' = cf
             /\ retry_count' = rc
             /\ waits' = w
        ELSE AfterTeardown(kind, cf, rc, w)

\* lines 335-343: the monitor loop was left
MonitorExit(w) ==
  IF ~_running
  THEN /\ start_pc' = "returned"
       /\ waits' = w
       /\ UNCHANGED <<_polling_started, retry_count, consecutive_failures, recov, recov_app,
                      recov_td>>
  ELSE EnterRecovery("unexpected", w)

\* a new Application replaces self._app: lines 227-247, 276-297
Build ==
  /\ nApps' = nApps + 1
  /\ _app' = nApps + 1
  /\ leaked' = Dropped
  /\ app_initialized' = FALSE
  /\ app_running' = FALSE
  /\ updater_running' = FALSE
  /\ td_begun' = FALSE

TokenMissing_never == FALSE

\* line 217: config.token is empty
TokenMissing == ~token

\* lines 215-249: start() is called
StartCall ==
  /\ start_pc = "idle"
  /\ IF TokenMissing
     THEN /\ start_pc' = "returned"
          /\ UNCHANGED <<_running, appVars>>
     ELSE /\ _running' = TRUE
          /\ Build
          /\ start_pc' = "pre_initialize"
  /\ UNCHANGED <<token, _polling_started, retry_count, consecutive_failures, recov, recov_app,
                 recov_td, waits, stopVars, sendVars, typingVars, hmVars, bkVars, ckVars, mdVars, smVars, stVars>>

\* start() goes on to `pc`, its variables as they are
StartGoto(pc) ==
  /\ start_pc' = pc
  /\ UNCHANGED <<_polling_started, retry_count, consecutive_failures, recov, recov_app,
                 recov_td, waits>>

\* line 252: an exception of lines 252-269 leaves start(), no try encloses them
PreInitialize ==
  /\ start_pc = "pre_initialize"
  /\ \E o \in Outcomes :
       IF Raised(o) = "ok"
       THEN /\ app_initialized' = TRUE
            /\ StartGoto("pre_start")
            /\ UNCHANGED <<_app, nApps, app_running, updater_running, td_begun, leaked>>
       ELSE StartGoto("raised") /\ UNCHANGED appVars
  /\ StartFrame

\* line 253
PreStart ==
  /\ start_pc = "pre_start"
  /\ \E o \in Outcomes :
       IF Raised(o) = "ok"
       THEN /\ app_running' = TRUE
            /\ StartGoto("pre_get_me")
            /\ UNCHANGED <<_app, nApps, app_initialized, updater_running, td_begun, leaked>>
       ELSE StartGoto("raised") /\ UNCHANGED appVars
  /\ StartFrame

\* lines 256-257
PreGetMe ==
  /\ start_pc = "pre_get_me"
  /\ \E o \in Outcomes :
       IF Raised(o) = "ok"
       THEN StartGoto("pre_set_my_commands")
       ELSE StartGoto("raised")
  /\ UNCHANGED appVars
  /\ StartFrame

\* lines 259-263: a failure is logged
PreSetMyCommands ==
  /\ start_pc = "pre_set_my_commands"
  /\ StartGoto("pre_start_polling")
  /\ UNCHANGED appVars
  /\ StartFrame

\* lines 266-269
PreStartPolling ==
  /\ start_pc = "pre_start_polling"
  /\ \E o \in Outcomes :
       IF Raised(o) = "ok"
       THEN /\ updater_running' = TRUE
            /\ StartGoto("loop_head")
            /\ UNCHANGED <<_app, nApps, app_initialized, app_running, td_begun, leaked>>
       ELSE StartGoto("raised") /\ UNCHANGED appVars
  /\ StartFrame

\* lines 273-299: the loop condition, and a new Application replaces self._app
LoopHead ==
  /\ start_pc = "loop_head"
  /\ IF KeepRunning
     THEN /\ nApps < MaxApps
          /\ Build
          /\ start_pc' = "initialize"
     ELSE /\ start_pc' = "returned"
          /\ UNCHANGED appVars
  /\ recov' = "none"
  /\ recov_app' = 0
  /\ recov_td' = <<>>
  /\ UNCHANGED <<_polling_started, retry_count, consecutive_failures, waits>>
  /\ StartFrame

\* line 302
Initialize ==
  /\ start_pc = "initialize"
  /\ \E o \in Outcomes :
       IF Raised(o) = "ok"
       THEN /\ app_initialized' = TRUE
            /\ StartGoto("app_start")
            /\ UNCHANGED <<_app, nApps, app_running, updater_running, td_begun, leaked>>
       ELSE /\ EnterRecovery(Raised(o), waits)
            /\ UNCHANGED appVars
  /\ StartFrame

\* line 303
AppStart ==
  /\ start_pc = "app_start"
  /\ \E o \in Outcomes :
       IF Raised(o) = "ok"
       THEN /\ app_running' = TRUE
            /\ StartGoto("delete_webhook")
            /\ UNCHANGED <<_app, nApps, app_initialized, updater_running, td_begun, leaked>>
       ELSE /\ EnterRecovery(Raised(o), waits)
            /\ UNCHANGED appVars
  /\ StartFrame

\* lines 306-310: a failure is logged
DeleteWebhook ==
  /\ start_pc = "delete_webhook"
  /\ StartGoto("get_me")
  /\ UNCHANGED appVars
  /\ StartFrame

\* the counter once get_me has succeeded, line 318
CounterOnConnect(cf) == 0

\* lines 313-319: the ready flag is set and the counter reset before start_polling
GetMe ==
  /\ start_pc = "get_me"
  /\ \E o \in Outcomes :
       IF Raised(o) = "ok"
       THEN /\ _polling_started' = TRUE
            /\ consecutive_failures' = CounterOnConnect(consecutive_failures)
            /\ start_pc' = "start_polling"
            /\ UNCHANGED <<retry_count, recov, recov_app, recov_td, waits>>
       ELSE EnterRecovery(Raised(o), waits)
  /\ UNCHANGED appVars
  /\ StartFrame

\* lines 321-328
StartPolling ==
  /\ start_pc = "start_polling"
  /\ \E o \in Outcomes :
       IF Raised(o) = "ok"
       THEN /\ updater_running' = TRUE
            /\ UNCHANGED <<_app, nApps, app_initialized, app_running, td_begun, leaked>>
            /\ IF _running /\ _polling_started
               THEN /\ start_pc' = "monitor_sleep"
                    /\ waits' = <<>>
                    /\ UNCHANGED <<_polling_started, retry_count, consecutive_failures, recov,
                                   recov_app, recov_td>>
               ELSE MonitorExit(<<>>)
       ELSE /\ EnterRecovery(Raised(o), waits)
            /\ UNCHANGED appVars
  /\ StartFrame

\* lines 327-333: one sleep of the monitor loop ends
MonitorSleep ==
  /\ start_pc = "monitor_sleep"
  /\ IF _app = 0
     THEN EnterRecovery("error", waits)
     ELSE IF updater_running /\ _running /\ _polling_started
     THEN StartGoto("monitor_sleep")
     ELSE MonitorExit(waits)
  /\ UNCHANGED appVars
  /\ StartFrame

\* one cleanup call of a recovery branch ends with o; a failure, or self._app found
\* None, ends the cleanup (lines 351-353, 382-384, 413-415) and the handle is dropped
StartCleanup(step, o, next) ==
  IF _app = 0
  THEN /\ AfterTeardown(recov, consecutive_failures, retry_count, waits)
       /\ UNCHANGED <<appVars, recov_td>>
  ELSE /\ recov_td' = Append(recov_td, step)
       /\ IF o = "ok" /\ next # "end"
          THEN /\ start_pc' = next
               /\ updater_running' = (updater_running /\ step # "updater.stop")
               /\ app_running' = (app_running /\ step # "app.stop")
               /\ td_begun' = TRUE
               /\ UNCHANGED <<_app, nApps, app_initialized, leaked, retry_count,
                              consecutive_failures, waits>>
          ELSE /\ _app' = 0
               /\ leaked' = Dropped
               /\ app_initialized' = FALSE
               /\ app_running' = FALSE
               /\ updater_running' = FALSE
               /\ td_begun' = FALSE
               /\ nApps' = nApps
               /\ AfterTeardown(recov, consecutive_failures, retry_count, waits)

\* lines 348, 379, 410
StartUpdaterStop ==
  /\ start_pc = "td_updater_stop"
  /\ \E o \in TdOutcomes : StartCleanup("updater.stop", o, "td_app_stop")
  /\ UNCHANGED <<_polling_started, recov, recov_app>>
  /\ StartFrame

\* lines 349, 380, 411
StartAppStop ==
  /\ start_pc = "td_app_stop"
  /\ \E o \in TdOutcomes : StartCleanup("app.stop", o, "td_shutdown")
  /\ UNCHANGED <<_polling_started, recov, recov_app>>
  /\ StartFrame

\* lines 350-353, 381-384, 412-415
StartShutdown ==
  /\ start_pc = "td_shutdown"
  /\ \E o \in TdOutcomes : StartCleanup("app.shutdown", o, "end")
  /\ UNCHANGED <<_polling_started, recov, recov_app>>
  /\ StartFrame

\* lines 359, 400, 424: the backoff sleep ends
Backoff ==
  /\ start_pc = "backoff"
  /\ StartGoto("loop_head")
  /\ UNCHANGED appVars
  /\ StartFrame

\* the updater of self._app stops by itself (read at line 331)
UpdaterStops ==
  /\ _app # 0
  /\ updater_running
  /\ updater_running' = FALSE
  /\ UNCHANGED <<token, _running, _polling_started, _app, nApps, app_initialized, app_running,
                 td_begun, leaked, startVars, stopVars, sendVars, typingVars, hmVars, bkVars, ckVars, mdVars, smVars, stVars>>

StartNext ==
  \/ StartCall
  \/ PreInitialize
  \/ PreStart
  \/ PreGetMe
  \/ PreSetMyCommands
  \/ PreStartPolling
  \/ LoopHead
  \/ Initialize
  \/ AppStart
  \/ DeleteWebhook
  \/ GetMe
  \/ StartPolling
  \/ MonitorSleep
  \/ StartUpdaterStop
  \/ StartAppStop
  \/ StartShutdown
  \/ Backoff
  \/ UpdaterStops

\* ---- the typing tasks

Cancelled_not(ts, t) == ts

\* task.cancel() of line 655: a task that has not finished is cancelled
Cancelled(ts, t) == IF t # 0 /\ ts[t] = "run" THEN [ts EXCEPT ![t] = "cancelled"] ELSE ts

\* _stop_typing, lines 651-655
StopTyping(c) ==
  /\ _typing_tasks' = [_typing_tasks EXCEPT ![c] = 0]
  /\ task_state' = Cancelled(task_state, _typing_tasks[c])
  /\ nTasks' = nTasks

\* _start_typing, lines 645-649
StartTyping(c) ==
  /\ _typing_tasks' = [_typing_tasks EXCEPT ![c] = nTasks + 1]
  /\ task_state' = [Cancelled(task_state, _typing_tasks[c]) EXCEPT ![nTasks + 1] = "run"]
  /\ nTasks' = nTasks + 1

\* _typing_loop, lines 657-666: the loop ends when self._app is None or the chat
\* action fails; the finished task stays in the map
TypingLoopEnds ==
  /\ \E t \in Tasks, o \in TdOutcomes :
       /\ task_state[t] = "run"
       /\ _app = 0 \/ o = "error"
       /\ task_state' = [task_state EXCEPT ![t] = "done"]
  /\ UNCHANGED <<token, _running, _polling_started, appVars, startVars, stopVars, sendVars,
                 _typing_tasks, nTasks, hmVars, bkVars, ckVars, mdVars, smVars, stVars>>

\* ---- stop()

\* lines 425-435
StopCall ==
  /\ stop_pc = "idle"
  /\ start_pc # "idle"
  /\ _running' = FALSE
  /\ _polling_started' = FALSE
  /\ _typing_tasks' = [c \in Chats |-> 0]
  /\ task_state' = [t \in Tasks |->
                      IF task_state[t] = "run" /\ \E c \in Chats : _typing_tasks[c] = t
                      THEN "cancelled" ELSE task_state[t]]
  /\ stop_in_backoff' = (start_pc = "backoff")
  /\ stop_pc' = IF _app # 0 THEN "td_updater_stop" ELSE "returned"
  /\ UNCHANGED <<token, appVars, startVars, sendVars, nTasks, hmVars, bkVars, ckVars, mdVars, smVars, stVars>>

\* one cleanup call of stop() ends with o; after a failure, or with self._app found
\* None, the finally clause drops the handle: lines 436-443
StopCleanup(step, o, next) ==
  IF _app = 0
  THEN /\ stop_pc' = "returned"
       /\ UNCHANGED appVars
  ELSE IF o = "ok" /\ next # "end"
  THEN /\ stop_pc' = next
       /\ updater_running' = (updater_running /\ step # "updater.stop")
       /\ app_running' = (app_running /\ step # "app.stop")
       /\ td_begun' = TRUE
       /\ UNCHANGED <<_app, nApps, app_initialized, leaked>>
  ELSE /\ stop_pc' = "returned"
       /\ _app' = 0
       /\ leaked' = Dropped
       /\ app_initialized' = FALSE
       /\ app_running' = FALSE
       /\ updater_running' = FALSE
       /\ td_begun' = FALSE
       /\ nApps' = nApps

StopFrame == UNCHANGED <<token, _running, _polling_started, startVars, stop_in_backoff, sendVars,
                         typingVars, hmVars, bkVars, ckVars, mdVars, smVars, stVars>>

\* line 437
StopUpdaterStop ==
  /\ stop_pc = "td_updater_stop"
  /\ \E o \in TdOutcomes : StopCleanup("updater.stop", o, "td_app_stop")
  /\ StopFrame

\* line 438
StopAppStop ==
  /\ stop_pc = "td_app_stop"
  /\ \E o \in TdOutcomes : StopCleanup("app.stop", o, "td_shutdown")
  /\ StopFrame

\* lines 439-443
StopShutdown ==
  /\ stop_pc = "td_shutdown"
  /\ \E o \in TdOutcomes : StopCleanup("app.shutdown", o, "end")
  /\ StopFrame

\* ---- _on_message

HmFrame == UNCHANGED <<token, _running, _polling_started, appVars, startVars, stopVars,
                       sendVars, bkVars, ckVars, mdVars, smVars, stVars>>

MediaCaught_fetch_only(step) == step \in {"get_file", "download"}

\* lines 589-619: the awaits of the media block the try statement encloses
MediaCaught(step) == step \in {"get_file", "download", "transcribe"}

TranscribeOutcomes == {"text", "empty", "error"}

\* lines 621-643: the content is joined, the typing task started, _handle_message called
HmForward(c, content, failed) ==
  /\ StartTyping(c)
  /\ hm_typing' = TRUE
  /\ hm_content' = content
  /\ hm_failed' = failed
  /\ hm_forwards' = hm_forwards + 1
  /\ hm_media' = "none"
  /\ hm_pc' = "publish"

\* lines 617-619: `step` of the media block raised
HmFail(c, step) ==
  IF MediaCaught(step)
  THEN HmForward(c, "failed", TRUE)
  ELSE /\ hm_pc' = "raised"
       /\ hm_failed' = TRUE
       /\ UNCHANGED <<hm_media, hm_typing, hm_content, hm_forwards, typingVars>>

\* the media block goes on to its next await
HmGoto(pc) ==
  /\ hm_pc' = pc
  /\ UNCHANGED <<hm_typing, hm_content, hm_failed, hm_forwards, typingVars>>

\* lines 543-590: an update is dispatched by the polling Application
HmReceive ==
  /\ hm_pc = "idle"
  /\ nTasks < MaxTasks
  /\ _app # 0 /\ app_running /\ updater_running
  /\ \E c \in Chats, m \in MediaKinds :
       /\ hm_chat' = c
       /\ IF m # "none" /\ _app # 0
          THEN hm_media' = m /\ HmGoto("get_file")
          ELSE HmForward(c, "none", FALSE)
  /\ HmFrame

\* lines 590-599, 617-619
HmGetFile ==
  /\ hm_pc = "get_file"
  /\ \E o \in TdOutcomes :
       IF o = "ok"
       THEN hm_media' = hm_media /\ HmGoto("download")
       ELSE HmFail(hm_chat, "get_file")
  /\ UNCHANGED hm_chat
  /\ HmFrame

\* lines 599-607, 613-619
HmDownload ==
  /\ hm_pc = "download"
  /\ \E o \in TdOutcomes :
       IF o = "error"
       THEN HmFail(hm_chat, "download")
       ELSE IF hm_media \in {"voice", "audio"}
       THEN hm_media' = hm_media /\ HmGoto("transcribe")
       ELSE HmForward(hm_chat, "ref", FALSE)
  /\ UNCHANGED hm_chat
  /\ HmFrame

\* lines 607-612, 617-619
HmTranscribe ==
  /\ hm_pc = "transcribe"
  /\ \E o \in TranscribeOutcomes :
       IF o = "error"
       THEN HmFail(hm_chat, "transcribe")
       ELSE HmForward(hm_chat, IF o = "text" THEN "transcript" ELSE "ref", FALSE)
  /\ UNCHANGED hm_chat
  /\ HmFrame

\* lines 631-643: _handle_message has returned, and with it the handler
HmPublish ==
  /\ hm_pc = "publish"
  /\ hm_pc' = "idle"
  /\ hm_chat' = "c1"
  /\ hm_media' = "none"
  /\ hm_typing' = FALSE
  /\ hm_content' = "none"
  /\ hm_failed' = FALSE
  /\ hm_forwards' = 0
  /\ UNCHANGED typingVars
  /\ HmFrame

\* ---- send()

ReadyToSend_handle_only == _app # 0

\* the entry check of send(), line 447
ReadyToSend == _app # 0 /\ _polling_started

\* the state machine has left Polling for the handle a call is issued on
Late == ~_polling_started \/ td_begun

MarkupFlavoured_never(o) == FALSE

MarkupFlavoured_always(o) == TRUE

\* line 493: the message of the error names a markup problem
MarkupFlavoured(o) == o = "parse"

\* lines 467-470: the exceptions the handlers of send() catch
SendHandles(e) == e = "ValueError" \/ e \in {"AttributeError", "TelegramError"}

\* the tiers that made a platform send call
Calls(log) == {k \in 1..Len(log) : log[k][2] # "nohandle"}

\* the awaited call of the last tier has ended with o
Ended(log, o) == [log EXCEPT ![Len(log)] = <<log[Len(log)][1], o>>]

SendSet(pc, i, att, err, late, log, exc) ==
  /\ send_pc' = pc
  /\ send_i' = i
  /\ send_attempted' = att
  /\ send_err' = err
  /\ send_late' = late
  /\ send_log' = log
  /\ send_exc' = exc

\* lines 467-470, 516-519: exception e leaves _safe_send_message for chunk i
SendRaise(e, i, att, err, late, log) ==
  SendSet("returned", i, att, err, late, log, IF SendHandles(e) THEN "caught" ELSE "escaped")

\* lines 464-470, 481-487: chunk i is sent in HTML mode; with self._app None the
\* AttributeError is not markup-flavoured, is raised again and ends send()
IssueHtml(i, att, err, late) ==
  IF _app = 0
  THEN SendRaise("AttributeError", i, att, err, late, <<<<"html", "nohandle">>>>)
  ELSE SendSet("html", i, att \cup {i}, err, late \/ Late, <<<<"html", "pending">>>>, "none")

\* lines 464-465: after chunk i, the next chunk or the end of send()
NextChunk(i, n, att, err, late, log) ==
  IF i < n
  THEN IssueHtml(i + 1, att, err, late)
  ELSE SendSet("returned", i, att, err, late, log, "none")

\* lines 508-515: the notice is sent; a failure is logged
IssueNotice(i, n, att, err, late, log) ==
  IF _app = 0
  THEN NextChunk(i, n, att, err, late, Append(log, <<"notice", "nohandle">>))
  ELSE SendSet("notice", i, att, err, late \/ Late, Append(log, <<"notice", "pending">>), "none")

\* lines 497-505: the chunk is sent again as plain text
IssuePlain(i, n, att, err, late, log) ==
  IF _app = 0
  THEN IssueNotice(i, n, att, err, late, Append(log, <<"plain", "nohandle">>))
  ELSE SendSet("plain", i, att, err, late \/ Late, Append(log, <<"plain", "pending">>), "none")

SendFrame == UNCHANGED <<token, _running, _polling_started, appVars, startVars, stopVars,
                         hmVars, bkVars, ckVars, mdVars, smVars, stVars>>

\* lines 445-465: send() is called with a message of n chunks for chat c; a chat_id
\* that is no integer raises ValueError at line 455
SendEnter ==
  /\ send_pc \in {"idle", "returned"}
  /\ \E c \in Chats, n \in 1..MaxChunks, valid \in BOOLEAN :
       /\ send_refusable' = (_app = 0 \/ ~_polling_started \/ start_pc = "backoff"
                             \/ stop_pc = "returned")
       /\ send_chat' = c
       /\ send_mark' = nTasks
       /\ IF ~ReadyToSend
          THEN /\ SendSet("returned", 0, {}, {}, FALSE, <<>>, "none")
               /\ send_n' = 0
               /\ UNCHANGED typingVars
          ELSE IF ~valid
          THEN /\ SendSet("returned", 0, {}, {}, FALSE, <<>>,
                          IF SendHandles("ValueError") THEN "caught" ELSE "escaped")
               /\ send_n' = 0
               /\ StopTyping(c)
          ELSE /\ StopTyping(c)
               /\ send_n' = n
               /\ IssueHtml(1, {}, {}, FALSE)
  /\ SendFrame

\* lines 483-493, 516-519: the HTML send of the chunk ends
SendHtml ==
  /\ send_pc = "html"
  /\ \E o \in SendOutcomes :
       IF o = "ok"
       THEN NextChunk(send_i, send_n, send_attempted, send_err, send_late, Ended(send_log, o))
       ELSE IF MarkupFlavoured(o)
       THEN IssuePlain(send_i, send_n, send_attempted, send_err, send_late, Ended(send_log, o))
       ELSE SendRaise("TelegramError", send_i, send_attempted, send_err \cup {send_i},
                      send_late, Ended(send_log, o))
  /\ UNCHANGED <<send_n, send_refusable, send_chat, send_mark, typingVars>>
  /\ SendFrame

\* lines 498-505: the plain-text send ends
SendPlain ==
  /\ send_pc = "plain"
  /\ \E o \in TdOutcomes :
       IF o = "ok"
       THEN NextChunk(send_i, send_n, send_attempted, send_err, send_late, Ended(send_log, o))
       ELSE IssueNotice(send_i, send_n, send_attempted, send_err, send_late,
                        Ended(send_log, o))
  /\ UNCHANGED <<send_n, send_refusable, send_chat, send_mark, typingVars>>
  /\ SendFrame

\* lines 510-515: the notice send ends; a failure is logged
SendNotice ==
  /\ send_pc = "notice"
  /\ \E o \in TdOutcomes :
       NextChunk(send_i, send_n, send_attempted, send_err, send_late, Ended(send_log, o))
  /\ UNCHANGED <<send_n, send_refusable, send_chat, send_mark, typingVars>>
  /\ SendFrame

StopNext ==
  \/ StopCall
  \/ StopUpdaterStop
  \/ StopAppStop
  \/ StopShutdown

HmNext ==
  \/ HmReceive
  \/ HmGetFile
  \/ HmDownload
  \/ HmTranscribe
  \/ HmPublish
  \/ TypingLoopEnds

SendNext ==
  \/ SendEnter
  \/ SendHtml
  \/ SendPlain
  \/ SendNotice

\* ---- the specifications

\* the connection state machine: start(), stop() and the updater
Next == StartNext \/ StopNext

Spec == Init /\ [][Next]_vars

\* start() and stop() with every awaited call and every sleep completing in the end
FairSpec == Init /\ [][Next]_vars /\ WF_vars(StartNext) /\ WF_vars(StopNext)

\* the connection state machine with the outbound sender
SendSpecNext == StartNext \/ StopNext \/ SendNext

SendSpec == Init /\ [][SendSpecNext]_vars

\* the connection state machine with the inbound handler and the typing tasks
InboundNext == StartNext \/ StopNext \/ HmNext

InboundSpec == Init /\ [][InboundNext]_vars

\* the inbound handler and the typing tasks with start() and stop(), start() building
\* at most MaxSessionApps Applications
HandlerNext ==
  \/ StartNext /\ nApps' <= MaxSessionApps
  \/ StopNext
  \/ HmNext

HandlerSpec == Init /\ [][HandlerNext]_vars

\* every coroutine of the channel: start(), stop(), the inbound handler with the typing
\* tasks, and send()
SessionNext ==
  \/ StartNext /\ nApps' <= MaxSessionApps
  \/ StopNext
  \/ HmNext
  \/ SendNext

SessionSpec == Init /\ [][SessionNext]_vars

\* the backoff functions applied to the consecutive-failure counts 1..MaxCount
BackoffInit ==
  /\ token = TRUE
  /\ ChannelInit
  /\ bk_n \in 1..MaxCount
  /\ bk_conflict = -1
  /\ bk_generic = -1
  /\ bk_prev = <<-1, -1>>
  /\ ChunkerIdle
  /\ RendererIdle
  /\ ManagerIdle
  /\ StoreIdle

BkFrame == UNCHANGED <<token, _running, _polling_started, appVars, startVars, stopVars,
                       sendVars, typingVars, hmVars, ckVars, mdVars, smVars, stVars>>

\* line 390
BkConflict ==
  /\ bk_conflict = -1
  /\ bk_conflict' = ConflictBackoff(bk_n)
  /\ UNCHANGED <<bk_n, bk_generic, bk_prev>>
  /\ BkFrame

\* line 419
BkGeneric ==
  /\ bk_generic = -1
  /\ bk_generic' = GenericBackoff(bk_n)
  /\ UNCHANGED <<bk_n, bk_conflict, bk_prev>>
  /\ BkFrame

\* lines 364, 404: one more consecutive failure
BkNextFailure ==
  /\ bk_conflict # -1
  /\ bk_generic # -1
  /\ bk_n < MaxCount
  /\ bk_n' = bk_n + 1
  /\ bk_prev' = <<bk_conflict, bk_generic>>
  /\ bk_conflict' = -1
  /\ bk_generic' = -1
  /\ BkFrame

BackoffNext == BkConflict \/ BkGeneric \/ BkNextFailure

BackoffSpec == BackoffInit /\ [][BackoffNext]_vars

\* ---- _split_long_message and its helpers: lines 19-118.  A text is a sequence of
\* characters, positions count from 0 as in the source.

Whitespace == {" ", "\n"}
WordChars == {"x", "a", "b", "i", "r", "h"}

\* the texts the chunker is applied to are built from these tokens
Tokens == {<<"x", "x">>, <<" ">>, <<"\n">>, <<"<", "b", ">">>, <<"<", "/", "b", ">">>,
           <<"<", "i", ">">>, <<"<", "/", "i", ">">>}

RECURSIVE Flatten(_)
Flatten(ts) == IF ts = <<>> THEN <<>> ELSE Head(ts) \o Flatten(Tail(ts))

TokenSeqs == UNION {[1..n -> Tokens] : n \in 0..MaxTokens}

\* the values of max_length: shorter than a tag, the length of an opening and of a
\* closing tag, and the longest two
Limits == {2, 3, 4, MaxLimit - 1, MaxLimit}

\* text[:n] and text[n:]
Take(text, n) == SubSeq(text, 1, Min(n, Len(text)))
Drop(text, n) == SubSeq(text, Min(n, Len(text)) + 1, Len(text))

\* str.rfind: the position of the last occurrence of pat in text, -1 for none
RFind(text, pat) ==
  LET hits == {k \in 0..(Len(text) - Len(pat)) : SubSeq(text, k + 1, k + Len(pat)) = pat}
  IN IF hits = {} THEN -1 ELSE CHOOSE k \in hits : \A j \in hits : j <= k

\* str.rstrip and str.lstrip
RStrip(text) ==
  LET keep == {k \in 1..Len(text) : text[k] \notin Whitespace}
  IN IF keep = {} THEN <<>> ELSE SubSeq(text, 1, CHOOSE k \in keep : \A j \in keep : j <= k)

LStrip_one(text) == SubSeq(text, 2, Len(text))

LStrip(text) ==
  LET keep == {k \in 1..Len(text) : text[k] \notin Whitespace}
  IN IF keep = {} THEN <<>> ELSE SubSeq(text, CHOOSE k \in keep : \A j \in keep : k <= j, Len(text))

\* lines 38, 43, 48: max_length * 0.7 is a product of doubles, and 0.7 is the double
\* just below 7/10: for these max_length, of those up to 200, the product is rounded
\* to a double below the integer 7 * max_length / 10; for the others it is that
\* integer or lies between the same two integers as 7 * max_length / 10
RoundedDown == {90, 170, 180}

\* split_pos > max_length * 0.7
InLastPart(split_pos, max_length) ==
  IF max_length \in RoundedDown
  THEN 10 * split_pos >= 7 * max_length
  ELSE 10 * split_pos > 7 * max_length

\* lines 34-52: the split position in the window of the first max_length characters
FindSplit(remaining, max_length) ==
  LET chunk == Take(remaining, max_length)
      para == RFind(chunk, <<"\n", "\n">>)
      line == RFind(chunk, <<"\n">>)
      space == RFind(chunk, <<" ">>)
  IN IF InLastPart(para, max_length) THEN para + 2
     ELSE IF InLastPart(line, max_length) THEN line + 1
     ELSE IF ~InLastPart(space, max_length) THEN max_length
     ELSE space + 1

_adjust_split_for_html_tags_none(text, split_pos) == split_pos

\* lines 78-92
_adjust_split_for_html_tags(text, split_pos) ==
  LET last_open == RFind(Take(text, split_pos), <<"<">>)
      last_close == RFind(Take(text, split_pos), <<">">>)
  IN IF last_open > last_close THEN last_open ELSE split_pos

\* line 104: the match of tag_pattern that begins at the '<' at index i of text (from
\* 1), as <<index of its '>', is_closing, tag_name>>; <<0, FALSE, <<>>>> for no match
MatchTag(text, i) ==
  LET n == Len(text)
      closing == i + 1 <= n /\ text[i + 1] = "/"
      ns == IF closing THEN i + 2 ELSE i + 1
      stops == {k \in ns..n : text[k] \notin WordChars}
      ne == IF stops = {} THEN n ELSE (CHOOSE k \in stops : \A j \in stops : k <= j) - 1
      gts == {k \in (ne + 2)..n : text[k] = ">"}
      none == <<0, FALSE, <<>>>>
  IN IF ne < ns \/ ne + 1 > n THEN none
     ELSE IF text[ne + 1] = ">" THEN <<ne + 1, closing, SubSeq(text, ns, ne)>>
     ELSE IF text[ne + 1] \in Whitespace /\ gts # {}
     THEN <<CHOOSE k \in gts : \A j \in gts : k <= j, closing, SubSeq(text, ns, ne)>>
     ELSE none

\* line 105: re.finditer, the matches from index i on, left to right without overlap
RECURSIVE FindTags(_, _)
FindTags(text, i) ==
  IF i > Len(text) THEN <<>>
  ELSE IF text[i] # "<" THEN FindTags(text, i + 1)
  ELSE LET m == MatchTag(text, i)
       IN IF m[1] = 0 THEN FindTags(text, i + 1)
          ELSE <<<<m[2], m[3]>>>> \o FindTags(text, m[1] + 1)

\* lines 106-116: the stack after the tags `tags`
RECURSIVE TagStack(_, _)
TagStack(tags, stack) ==
  IF tags = <<>> THEN stack
  ELSE LET is_closing == Head(tags)[1]
           tag_name == Head(tags)[2]
       IN IF is_closing
          THEN IF stack # <<>> /\ stack[Len(stack)] = tag_name
               THEN TagStack(Tail(tags), SubSeq(stack, 1, Len(stack) - 1))
               ELSE TagStack(Tail(tags), stack)
          ELSE IF tag_name \in {<<"b", "r">>, <<"h", "r">>}
               THEN TagStack(Tail(tags), stack)
               ELSE TagStack(Tail(tags), Append(stack, tag_name))

\* lines 95-118
_get_unclosed_tags(text) == TagStack(FindTags(text, 1), <<>>)

Reversed(seq) == [k \in 1..Len(seq) |-> seq[Len(seq) + 1 - k]]

ClosingOrder_as_opened(unclosed_tags) == unclosed_tags

\* line 63: the order in which the unclosed tags are closed
ClosingOrder(unclosed_tags) == Reversed(unclosed_tags)

\* line 63: ''.join(f'</{tag}>' for tag in reversed(unclosed_tags))
RECURSIVE Closers(_)
Closers(tags) ==
  IF tags = <<>> THEN <<>> ELSE <<"<", "/">> \o Head(tags) \o <<">">> \o Closers(Tail(tags))

\* line 70: ''.join(f'<{tag}>' for tag in unclosed_tags)
RECURSIVE Openers(_)
Openers(tags) ==
  IF tags = <<>> THEN <<>> ELSE <<"<">> \o Head(tags) \o <<">">> \o Openers(Tail(tags))

ChunkerInit ==
  /\ token = TRUE
  /\ ChannelInit
  /\ BackoffIdle
  /\ RendererIdle
  /\ ManagerIdle
  /\ StoreIdle
  /\ ck_pc = "call"
  /\ ck_text \in {Flatten(ts) : ts \in TokenSeqs}
  /\ ck_limit \in Limits
  /\ ck_remaining = <<>>
  /\ ck_chunks = <<>>
  /\ ck_iter = 0
  /\ ck_split = -1
  /\ ck_before = 0

CkFrame == UNCHANGED <<token, _running, _polling_started, appVars, startVars, stopVars,
                       sendVars, typingVars, hmVars, bkVars, mdVars, smVars, stVars, ck_text, ck_limit>>

Fits_nonempty(text, max_length) == text # <<>> /\ Len(text) <= max_length

\* line 27
Fits(text, max_length) == Len(text) <= max_length

\* lines 27-31: a text within max_length is returned as it is
SplitEnter ==
  /\ ck_pc = "call"
  /\ IF Fits(ck_text, ck_limit)
     THEN /\ ck_chunks' = <<ck_text>>
          /\ ck_remaining' = <<>>
          /\ ck_pc' = "done"
     ELSE /\ ck_chunks' = <<>>
          /\ ck_remaining' = ck_text
          /\ ck_pc' = "loop"
  /\ UNCHANGED <<ck_iter, ck_split, ck_before>>
  /\ CkFrame

\* lines 33-70: one iteration of the loop
SplitStep ==
  /\ ck_pc = "loop"
  /\ Len(ck_remaining) > ck_limit
  /\ ck_iter < MaxIter
  /\ LET split_pos == _adjust_split_for_html_tags(ck_remaining,
                                                  FindSplit(ck_remaining, ck_limit))
         unclosed_tags == _get_unclosed_tags(Take(ck_remaining, split_pos))
         chunk_text == RStrip(Take(ck_remaining, split_pos))
                         \o Closers(ClosingOrder(unclosed_tags))
         rest == LStrip(Drop(ck_remaining, split_pos))
     IN /\ ck_chunks' = Append(ck_chunks, chunk_text)
        /\ ck_remaining' = IF unclosed_tags # <<>> /\ rest # <<>>
                           THEN Openers(unclosed_tags) \o rest
                           ELSE rest
        /\ ck_split' = split_pos
  /\ ck_before' = Len(ck_remaining)
  /\ ck_iter' = ck_iter + 1
  /\ ck_pc' = "loop"
  /\ CkFrame

\* lines 72-75: the loop is left
SplitReturn ==
  /\ ck_pc = "loop"
  /\ Len(ck_remaining) <= ck_limit
  /\ ck_chunks' = IF ck_remaining # <<>> THEN Append(ck_chunks, ck_remaining) ELSE ck_chunks
  /\ ck_pc' = "done"
  /\ UNCHANGED <<ck_remaining, ck_iter, ck_split, ck_before>>
  /\ CkFrame

ChunkerNext == SplitEnter \/ SplitStep \/ SplitReturn

ChunkerSpec == ChunkerInit /\ [][ChunkerNext]_vars

\* _split_long_message applied to texts without markup: every text of words, spaces
\* and line breaks up to MaxPlainLen characters; max_length 3 admits no split
\* candidate, 4 admits one in its last position, the largest admits '\n\n'
PlainChars == {"x", " ", "\n"}

PlainTexts == UNION {[1..n -> PlainChars] : n \in 0..MaxPlainLen}

PlainLimits == {3, 4, MaxLimit - 1}

\* and to long texts with one break near seven tenths of max_length: a run of 'x', a
\* space, a line break or a paragraph break, and a run of 'x' that ends beyond
\* max_length
WideLimits == {80, 90}

Run(n) == [k \in 1..n |-> "x"]

WideTexts(max_length) ==
  {Run(a) \o sep \o Run(max_length - a + d) :
     a \in (((7 * max_length) \div 10) - 2)..(((7 * max_length) \div 10) + 2),
     sep \in {<<" ">>, <<"\n">>, <<"\n", "\n">>},
     d \in 0..2}

PlainInit ==
  /\ token = TRUE
  /\ ChannelInit
  /\ BackoffIdle
  /\ RendererIdle
  /\ ManagerIdle
  /\ StoreIdle
  /\ ck_pc = "call"
  /\ \/ ck_limit \in PlainLimits /\ ck_text \in PlainTexts
     \/ ck_limit \in WideLimits /\ ck_text \in WideTexts(ck_limit)
  /\ ck_remaining = <<>>
  /\ ck_chunks = <<>>
  /\ ck_iter = 0
  /\ ck_split = -1
  /\ ck_before = 0

PlainSpec == PlainInit /\ [][ChunkerNext]_vars

\* _split_long_message applied to texts with a link: the opening tag of a link carries
\* an attribute, <a h> stands for <a href="...">
LinkTokens == {<<"x", "x">>, <<" ">>, <<"<", "a", " ", "h", ">">>, <<"<", "/", "a", ">">>,
               <<"<", "b", ">">>, <<"<", "/", "b", ">">>}

LinkTexts == {Flatten(ts) : ts \in UNION {[1..n -> LinkTokens] : n \in 0..MaxTokens}}

\* the values of max_length: one more than the opening tag of the link, and the longest
LinkLimits == {MaxLimit - 2, MaxLimit}

LinkInit ==
  /\ token = TRUE
  /\ ChannelInit
  /\ BackoffIdle
  /\ RendererIdle
  /\ ManagerIdle
  /\ StoreIdle
  /\ ck_pc = "call"
  /\ ck_text \in LinkTexts
  /\ ck_limit \in LinkLimits
  /\ ck_remaining = <<>>
  /\ ck_chunks = <<>>
  /\ ck_iter = 0
  /\ ck_split = -1
  /\ ck_before = 0

LinkSpec == LinkInit /\ [][ChunkerNext]_vars

\* ---- _markdown_to_telegram_html: lines 121-181.  A text is a sequence of characters;
\* indices in the operators below count from 1.

NUL == "NUL"          \* the character \x00 of the placeholders
Tick == "TICK"        \* the backtick
Bullet == "BULLET"    \* the character U+2022 of line 167
Space == {" ", "\n"}  \* \s over the characters of the texts
\* [a-zA-Z0-9] over the characters of the texts, of the placeholders and of the markup
\* the function writes
AlNum == {"a", "b", "c", "d", "e", "f", "g", "h", "i", "l", "m", "o", "p", "r", "s", "t",
          "B", "C", "I", "0", "1", "2", "3", "4", "5", "6", "7", "8", "9"}
Word == AlNum \cup {"_"}  \* \w

\* the texts the renderer is applied to are built from these tokens
MdTokens == {<<"a">>, <<"\n">>, <<"*", "*">>, <<"_">>, <<"~", "~">>, <<Tick>>,
             <<Tick, Tick, Tick>>, <<"<">>, <<"&">>, <<"[">>, <<"]", "(", "a", ")">>,
             <<"#", " ">>, <<">", " ">>, <<"-", " ">>}

MdTokenSeqs == UNION {[1..n -> MdTokens] : n \in 0..MaxMdTokens}

\* pat occurs in text at index i
StartsAt(text, i, pat) ==
  /\ i >= 1
  /\ i + Len(pat) - 1 <= Len(text)
  /\ SubSeq(text, i, i + Len(pat) - 1) = pat

\* the index of the first occurrence of pat in text at or after index i, 0 for none
FindFrom(text, pat, i) ==
  LET hits == {k \in i..(Len(text) - Len(pat) + 1) : StartsAt(text, k, pat)}
  IN IF hits = {} THEN 0 ELSE CHOOSE k \in hits : \A j \in hits : k <= j

\* the first index at or after i whose character is not in the set, Len(text) + 1 for none
SkipWhile(text, i, set) ==
  LET stops == {k \in i..Len(text) : text[k] \notin set}
  IN IF stops = {} THEN Len(text) + 1 ELSE CHOOSE k \in stops : \A j \in stops : k <= j

\* the index after the line that holds index i: of its '\n', or Len(text) + 1
LineEnd(text, i) ==
  LET ends == {k \in i..Len(text) : text[k] = "\n"}
  IN IF ends = {} THEN Len(text) + 1 ELSE CHOOSE k \in ends : \A j \in ends : k <= j

\* ^ with re.MULTILINE
LineStart(text, i) == i = 1 \/ text[i - 1] = "\n"

Digit == <<"0", "1", "2", "3", "4", "5", "6", "7", "8", "9">>

\* the decimal digits of n, as an f-string formats it
RECURSIVE Decimal(_)
Decimal(n) == IF n < 10 THEN <<Digit[n + 1]>> ELSE Decimal(n \div 10) \o <<Digit[(n % 10) + 1]>>

\* lines 132, 140, 173, 179: "\x00CB{i}\x00" and "\x00IC{i}\x00"
Placeholder(kind, i) == <<NUL>> \o kind \o Decimal(i) \o <<NUL>>

Fence == <<Tick, Tick, Tick>>

\* line 134: re.sub by save_code_block from index i on, of three backticks, [\w]*,
\* \n?, ([\s\S]*?) and three backticks; the result is <<text, code_blocks>>
RECURSIVE SaveCodeBlocks(_, _, _, _)
SaveCodeBlocks(text, i, out, saved) ==
  IF i > Len(text) THEN <<out, saved>>
  ELSE IF ~StartsAt(text, i, Fence) THEN SaveCodeBlocks(text, i + 1, Append(out, text[i]), saved)
  ELSE LET w == SkipWhile(text, i + 3, Word)
           c == IF w <= Len(text) /\ text[w] = "\n" THEN w + 1 ELSE w
           e == FindFrom(text, Fence, c)
       IN IF e = 0 THEN SaveCodeBlocks(text, i + 1, Append(out, text[i]), saved)
          ELSE SaveCodeBlocks(text, e + 3, out \o Placeholder(<<"C", "B">>, Len(saved)),
                              Append(saved, SubSeq(text, c, e - 1)))

\* line 142: re.sub by save_inline_code of a backtick, one or more characters other
\* than a backtick, and a backtick
RECURSIVE SaveInlineCodes(_, _, _, _)
SaveInlineCodes(text, i, out, saved) ==
  IF i > Len(text) THEN <<out, saved>>
  ELSE LET e == FindFrom(text, <<Tick>>, i + 1)
       IN IF text[i] = Tick /\ e > i + 1
          THEN SaveInlineCodes(text, e + 1, out \o Placeholder(<<"I", "C">>, Len(saved)),
                               Append(saved, SubSeq(text, i + 1, e - 1)))
          ELSE SaveInlineCodes(text, i + 1, Append(out, text[i]), saved)

\* line 145: re.sub of ^#{1,6}\s+(.+)$ by \1.  \s+ gives back whitespace until a
\* character other than '\n' follows it, which begins (.+)
RECURSIVE StripHeaders(_, _, _)
StripHeaders(text, i, out) ==
  IF i > Len(text) THEN out
  ELSE LET h == SkipWhile(text, i, {"#"})
           w == SkipWhile(text, h, Space)
           starts == {q \in (h + 1)..w : q <= Len(text) /\ text[q] # "\n"}
           q == CHOOSE k \in starts : \A j \in starts : j <= k
       IN IF LineStart(text, i) /\ h - i \in 1..6 /\ starts # {}
          THEN StripHeaders(text, LineEnd(text, q), out \o SubSeq(text, q, LineEnd(text, q) - 1))
          ELSE StripHeaders(text, i + 1, Append(out, text[i]))

\* line 148: re.sub of ^>\s*(.*)$ by \1
RECURSIVE StripBlockquotes(_, _, _)
StripBlockquotes(text, i, out) ==
  IF i > Len(text) THEN out
  ELSE LET w == SkipWhile(text, i + 1, Space)
       IN IF LineStart(text, i) /\ text[i] = ">"
          THEN StripBlockquotes(text, LineEnd(text, w), out \o SubSeq(text, w, LineEnd(text, w) - 1))
          ELSE StripBlockquotes(text, i + 1, Append(out, text[i]))

\* lines 151, 172, 178: & first, then < and >
EscapeChar(c) ==
  CASE c = "&" -> <<"&", "a", "m", "p", ";">>
    [] c = "<" -> <<"&", "l", "t", ";">>
    [] c = ">" -> <<"&", "g", "t", ";">>
    [] OTHER -> <<c>>

RECURSIVE Escape(_)
Escape(text) == IF text = <<>> THEN <<>> ELSE EscapeChar(Head(text)) \o Escape(Tail(text))

\* line 154: re.sub of \[([^\]]+)\]\(([^)]+)\) by <a href="\2">\1</a>
RECURSIVE Links(_, _, _)
Links(text, i, out) ==
  IF i > Len(text) THEN out
  ELSE LET r == FindFrom(text, <<"]">>, i + 1)
           p == FindFrom(text, <<")">>, r + 2)
       IN IF text[i] = "[" /\ r > i + 1 /\ StartsAt(text, r + 1, <<"(">>) /\ p > r + 2
          THEN Links(text, p + 1,
                     out \o <<"<", "a", " ", "h", "r", "e", "f", "=", "\"">>
                         \o SubSeq(text, r + 2, p - 1) \o <<"\"", ">">>
                         \o SubSeq(text, i + 1, r - 1) \o <<"<", "/", "a", ">">>)
          ELSE Links(text, i + 1, Append(out, text[i]))

\* lines 157, 158, 164: re.sub of mark(.+?)mark by <tag>\1</tag>, mark of two characters
RECURSIVE Emphasis(_, _, _, _, _)
Emphasis(text, i, out, mark, tag) ==
  IF i > Len(text) THEN out
  ELSE LET e == FindFrom(text, mark, i + 3)
       IN IF StartsAt(text, i, mark) /\ e # 0 /\ \A k \in (i + 2)..(e - 1) : text[k] # "\n"
          THEN Emphasis(text, e + 2,
                        out \o <<"<", tag, ">">> \o SubSeq(text, i + 2, e - 1)
                            \o <<"<", "/", tag, ">">>, mark, tag)
          ELSE Emphasis(text, i + 1, Append(out, text[i]), mark, tag)

\* line 161: re.sub of (?<![a-zA-Z0-9])_([^_]+)_(?![a-zA-Z0-9]) by <i>\1</i>
RECURSIVE Italic(_, _, _)
Italic(text, i, out) ==
  IF i > Len(text) THEN out
  ELSE LET e == FindFrom(text, <<"_">>, i + 1)
       IN IF /\ text[i] = "_"
             /\ (i = 1 \/ text[i - 1] \notin AlNum)
             /\ e > i + 1
             /\ (e = Len(text) \/ text[e + 1] \notin AlNum)
          THEN Italic(text, e + 1,
                      out \o <<"<", "i", ">">> \o SubSeq(text, i + 1, e - 1) \o <<"<", "/", "i", ">">>)
          ELSE Italic(text, i + 1, Append(out, text[i]))

\* line 167: re.sub of ^[-*]\s+ by the bullet and a space
RECURSIVE Bullets(_, _, _)
Bullets(text, i, out) ==
  IF i > Len(text) THEN out
  ELSE IF LineStart(text, i) /\ text[i] \in {"-", "*"} /\ i < Len(text) /\ text[i + 1] \in Space
  THEN Bullets(text, SkipWhile(text, i + 1, Space), out \o <<Bullet, " ">>)
  ELSE Bullets(text, i + 1, Append(out, text[i]))

\* str.replace: every occurrence of pat, from the left, without overlap
RECURSIVE Replace(_, _, _, _, _)
Replace(text, pat, by, i, out) ==
  IF i > Len(text) THEN out
  ELSE IF StartsAt(text, i, pat) THEN Replace(text, pat, by, i + Len(pat), out \o by)
  ELSE Replace(text, pat, by, i + 1, Append(out, text[i]))

\* lines 170-173: the inline codes from index i on
RECURSIVE RestoreInlineCodes(_, _, _)
RestoreInlineCodes(text, codes, i) ==
  IF i > Len(codes) THEN text
  ELSE RestoreInlineCodes(
         Replace(text, Placeholder(<<"I", "C">>, i - 1),
                 <<"<", "c", "o", "d", "e", ">">> \o Escape(codes[i])
                   \o <<"<", "/", "c", "o", "d", "e", ">">>, 1, <<>>),
         codes, i + 1)

\* lines 176-179: the code blocks from index i on
RECURSIVE RestoreCodeBlocks(_, _, _)
RestoreCodeBlocks(text, codes, i) ==
  IF i > Len(codes) THEN text
  ELSE RestoreCodeBlocks(
         Replace(text, Placeholder(<<"C", "B">>, i - 1),
                 <<"<", "p", "r", "e", ">", "<", "c", "o", "d", "e", ">">> \o Escape(codes[i])
                   \o <<"<", "/", "c", "o", "d", "e", ">", "<", "/", "p", "r", "e", ">">>, 1, <<>>),
         codes, i + 1)

\* lines 144-167: steps 3 to 10
Transform(text) ==
  LET t3 == StripHeaders(text, 1, <<>>)
      t4 == StripBlockquotes(t3, 1, <<>>)
      t5 == Escape(t4)
      t6 == Links(t5, 1, <<>>)
      t7 == Emphasis(Emphasis(t6, 1, <<>>, <<"*", "*">>, "b"), 1, <<>>, <<"_", "_">>, "b")
      t8 == Italic(t7, 1, <<>>)
      t9 == Emphasis(t8, 1, <<>>, <<"~", "~">>, "s")
  IN Bullets(t9, 1, <<>>)

RendererInit ==
  /\ token = TRUE
  /\ ChannelInit
  /\ BackoffIdle
  /\ ChunkerIdle
  /\ ManagerIdle
  /\ StoreIdle
  /\ md_pc = "call"
  /\ md_in \in {Flatten(ts) : ts \in MdTokenSeqs}
  /\ md_text = <<>>
  /\ code_blocks = <<>>
  /\ inline_codes = <<>>

MdFrame == UNCHANGED <<token, _running, _polling_started, appVars, startVars, stopVars,
                       sendVars, typingVars, hmVars, bkVars, ckVars, smVars, stVars, md_in>>

\* lines 125-126: the empty text is returned as it is
MdCall ==
  /\ md_pc = "call"
  /\ md_text' = md_in
  /\ md_pc' = IF md_in = <<>> THEN "done" ELSE "extract"
  /\ UNCHANGED <<code_blocks, inline_codes>>
  /\ MdFrame

\* lines 128-142: steps 1 and 2
MdExtract ==
  /\ md_pc = "extract"
  /\ LET blocks == SaveCodeBlocks(md_text, 1, <<>>, <<>>)
         inlines == SaveInlineCodes(blocks[1], 1, <<>>, <<>>)
     IN /\ code_blocks' = blocks[2]
        /\ inline_codes' = inlines[2]
        /\ md_text' = inlines[1]
  /\ md_pc' = "transform"
  /\ MdFrame

\* lines 144-167: steps 3 to 10
MdTransform ==
  /\ md_pc = "transform"
  /\ md_text' = Transform(md_text)
  /\ md_pc' = "restore"
  /\ UNCHANGED <<code_blocks, inline_codes>>
  /\ MdFrame

\* lines 169-181: steps 11 and 12
MdRestore ==
  /\ md_pc = "restore"
  /\ md_text' = RestoreCodeBlocks(RestoreInlineCodes(md_text, inline_codes, 1), code_blocks, 1)
  /\ md_pc' = "done"
  /\ UNCHANGED <<code_blocks, inline_codes>>
  /\ MdFrame

RendererNext == MdCall \/ MdExtract \/ MdTransform \/ MdRestore

RendererSpec == RendererInit /\ [][RendererNext]_vars

\* ---- SessionManager: nanobot/session/manager.py, lines 56-217.  Its methods do not
\* await: each call is one step.

\* session keys, each a sequence of characters
SessionKeys == {<<"a", ":", "b">>, <<"a", "_", "b">>, <<"c", ":", "d">>}

\* str.replace of one character
ReplaceChar(name, old, new) == [k \in 1..Len(name) |-> IF name[k] = old THEN new ELSE name[k]]

\* nanobot.utils.helpers.safe_filename (imported at line 12) is not part of the sources:
\* it is a function of its argument, taken as leaving a name of letters and '_' as it is
safe_filename(name) == name

\* lines 70-73: the stem of the session file of key
_get_session_path(key) == safe_filename(ReplaceChar(key, ":", "_"))

SessionPaths == {_get_session_path(key) : key \in SessionKeys}

\* line 158: the file of key is written
Written(files, key) == [files EXCEPT ![_get_session_path(key)] = key]

\* lines 187-204: the keys list_sessions reports, one for each file of the directory
ListedKey(path) == ReplaceChar(path, "_", ":")
list_sessions == {ListedKey(path) : path \in {q \in SessionPaths : sm_files[q] # NoKey}}

\* the outcomes of _save: the file is written, or open or write raises
SaveOutcomes == {"ok", "error"}

\* OrderedDict: the keys without key, and key put last
Without(cache, key) == SelectSeq(cache, LAMBDA k : k # key)
MovedToEnd(cache, key) == Append(Without(cache, key), key)
InCache(cache, key) == \E k \in 1..Len(cache) : cache[k] = key

\* line 172: self._cache[session.key] = session; a key already there keeps its place
Stored(cache, key) == IF InCache(cache, key) THEN cache ELSE Append(cache, key)

\* lines 64-68
ManagerInit ==
  /\ token = TRUE
  /\ ChannelInit
  /\ BackoffIdle
  /\ ChunkerIdle
  /\ RendererIdle
  /\ StoreIdle
  /\ _cache = <<>>
  /\ max_cache_size \in 1..MaxCacheSize
  /\ sm_files = [path \in SessionPaths |-> NoKey]
  /\ sm_evicted = NoKey
  /\ sm_raised = FALSE

SmFrame == UNCHANGED <<token, _running, _polling_started, appVars, startVars, stopVars,
                       sendVars, typingVars, hmVars, bkVars, ckVars, mdVars, stVars, max_cache_size>>

\* lines 75-106
get_or_create ==
  /\ max_cache_size > 0
  /\ \E key \in SessionKeys, o \in SaveOutcomes :
       IF InCache(_cache, key)
       THEN /\ _cache' = MovedToEnd(_cache, key)
            /\ UNCHANGED sm_files
            /\ sm_evicted' = NoKey
            /\ sm_raised' = FALSE
       ELSE LET added == Append(_cache, key)
            IN IF Len(added) > max_cache_size
               THEN IF o = "ok"
                    THEN /\ _cache' = Stored(Tail(added), Head(added))
                         /\ sm_files' = Written(sm_files, Head(added))
                         /\ sm_evicted' = Head(added)
                         /\ sm_raised' = FALSE
                    ELSE /\ _cache' = Tail(added)
                         /\ UNCHANGED sm_files
                         /\ sm_evicted' = NoKey
                         /\ sm_raised' = TRUE
               ELSE /\ _cache' = added
                    /\ UNCHANGED sm_files
                    /\ sm_evicted' = NoKey
                    /\ sm_raised' = FALSE
  /\ SmFrame

\* lines 147-172: save of a session with any key, cached or not
save ==
  /\ max_cache_size > 0
  /\ \E key \in SessionKeys, o \in SaveOutcomes :
       IF o = "ok"
       THEN /\ _cache' = MovedToEnd(Stored(_cache, key), key)
            /\ sm_files' = Written(sm_files, key)
            /\ sm_raised' = FALSE
       ELSE /\ UNCHANGED <<_cache, sm_files>>
            /\ sm_raised' = TRUE
  /\ sm_evicted' = NoKey
  /\ SmFrame

\* lines 174-176
invalidate ==
  /\ max_cache_size > 0
  /\ \E key \in SessionKeys : _cache' = Without(_cache, key)
  /\ sm_evicted' = NoKey
  /\ sm_raised' = FALSE
  /\ UNCHANGED sm_files
  /\ SmFrame

\* lines 212-216: the files after the saves of the cached sessions from index k on, in
\* the order of the cache; written holds the indices whose save succeeds
RECURSIVE FlushWritten(_, _, _, _)
FlushWritten(files, cache, written, k) ==
  IF k > Len(cache) THEN files
  ELSE FlushWritten(IF k \in written THEN Written(files, cache[k]) ELSE files,
                    cache, written, k + 1)

\* lines 206-217: every cached session is saved, a failing save is logged
flush_cache ==
  /\ max_cache_size > 0
  /\ \E written \in SUBSET (1..Len(_cache)) :
       sm_files' = FlushWritten(sm_files, _cache, written, 1)
  /\ _cache' = <<>>
  /\ sm_evicted' = NoKey
  /\ sm_raised' = FALSE
  /\ SmFrame

ManagerNext == get_or_create \/ save \/ invalidate \/ flush_cache

ManagerSpec == ManagerInit /\ [][ManagerNext]_vars

\* ---- Session and its file: nanobot/session/manager.py, lines 15-53, 108-172.  One
\* caller works on the session of one key, obtained from a SessionManager with the
\* default max_cache_size, which a single key never exceeds.  A dict is a record of
\* the keys it has and of their values; the values of the keys it does not have are
\* fillers that are never read.

\* what a caller says: role and content
Said == {<<"user", "hi">>, <<"assistant", "yo">>}

\* **kwargs of add_message: none, _type="metadata", parts=("a", "b")
Kwargs == {[has |-> {}, _type |-> "", parts |-> ""],
           [has |-> {"_type"}, _type |-> "metadata", parts |-> ""],
           [has |-> {"parts"}, _type |-> "", parts |-> "tuple"]}

\* values of Session.metadata: {}, {"k": "v"}, {1: "v"}; an entry is <<type of the key,
\* key, value>>
Metadatas == {{}, {<<"str", "k", "v">>}, {<<"int", "1", "v">>}}

\* datetime.isoformat and datetime.fromisoformat
isoformat(t) == <<"T", t>>
fromisoformat(text) == text[2]

\* dict.get(name, default)
Get(data, name, default) == IF name \in data.has THEN data.val[name] ELSE default

Filler == [_type |-> "", created_at |-> <<"T", 0>>, updated_at |-> <<"T", 0>>,
           metadata |-> {}, last_consolidated |-> 0, role |-> "", content |-> "",
           timestamp |-> <<"T", 0>>, parts |-> ""]

\* lines 36-41: the dict add_message builds at time now
Message(said, kwargs, now) ==
  [has |-> {"role", "content", "timestamp"} \cup kwargs.has,
   val |-> [Filler EXCEPT !.role = said[1], !.content = said[2],
                          !.timestamp = isoformat(now),
                          !._type = kwargs._type, !.parts = kwargs.parts]]

\* json.dumps of a dict: a tuple and a list are both written as an array, the keys of
\* a dict are written as strings
JsonDict(d) == {<<"str", e[2], e[3]>> : e \in d}
dumps(data) ==
  [data EXCEPT !.val.parts = IF @ \in {"tuple", "list"} THEN "array" ELSE @,
               !.val.metadata = JsonDict(@)]

\* json.loads of a line: an array is read as a list
loads(line) == [line EXCEPT !.val.parts = IF @ = "array" THEN "list" ELSE @]

\* lines 159-165: metadata_line
MetadataLine(s) ==
  [has |-> {"_type", "created_at", "updated_at", "metadata", "last_consolidated"},
   val |-> [Filler EXCEPT !._type = "metadata",
                          !.created_at = isoformat(s.created_at),
                          !.updated_at = isoformat(s.updated_at),
                          !.metadata = s.metadata,
                          !.last_consolidated = s.last_consolidated]]

\* lines 158-170: the lines _save writes
_save(s) ==
  <<dumps(MetadataLine(s))>> \o [k \in 1..Len(s.messages) |-> dumps(s.messages[k])]

\* lines 116-134: the lines of the file read in order; acc holds messages, metadata,
\* created_at (0 for None) and last_consolidated so far
RECURSIVE LoadLines(_, _)
LoadLines(lines, acc) ==
  IF lines = <<>> THEN acc
  ELSE LET data == loads(Head(lines))
       IN LoadLines(Tail(lines),
            IF Get(data, "_type", "") = "metadata"
            THEN [acc EXCEPT !.metadata = Get(data, "metadata", {}),
                             !.created_at = IF "created_at" \in data.has
                                            THEN fromisoformat(data.val.created_at) ELSE 0,
                             !.last_consolidated = Get(data, "last_consolidated", 0)]
            ELSE [acc EXCEPT !.messages = Append(@, data)])

\* lines 27-32: Session(key=key) built at time now
NewSession(key, now) ==
  [key |-> key, messages |-> <<>>, created_at |-> now, updated_at |-> now,
   metadata |-> {}, last_consolidated |-> 0]

\* lines 108-142: the Session _load builds at time now from the lines of an existing file
_load(key, lines, now) ==
  LET acc == LoadLines(lines, [messages |-> <<>>, metadata |-> {}, created_at |-> 0,
                               last_consolidated |-> 0])
  IN [key |-> key, messages |-> acc.messages,
      created_at |-> IF acc.created_at # 0 THEN acc.created_at ELSE now,
      updated_at |-> now, metadata |-> acc.metadata,
      last_consolidated |-> acc.last_consolidated]

\* line 47: self.messages[-max_messages:] reduced to role and content; the slice [-0:]
\* is the whole list
get_history(messages, max_messages) ==
  LET n == Len(messages)
      from == IF max_messages = 0 \/ max_messages >= n THEN 1 ELSE n - max_messages + 1
  IN [k \in 1..(n - from + 1) |->
        [role |-> messages[from + k - 1].val.role,
         content |-> messages[from + k - 1].val.content]]

NoHistory == [max_messages |-> -1, entries |-> <<>>]

\* the state after get_or_create(key) of a manager with an empty sessions directory
StoreInit ==
  /\ token = TRUE
  /\ ChannelInit
  /\ BackoffIdle
  /\ ChunkerIdle
  /\ RendererIdle
  /\ ManagerIdle
  /\ st_now = 1
  /\ \E key \in SessionKeys : session = NewSession(key, 1)
  /\ st_file = <<>>
  /\ st_cached = TRUE
  /\ st_trip = "none"
  /\ st_saved = session
  /\ st_history = NoHistory

StFrame == UNCHANGED <<token, _running, _polling_started, appVars, startVars, stopVars,
                       sendVars, typingVars, hmVars, bkVars, ckVars, mdVars, smVars>>

\* the sequence save, invalidate, get_or_create goes on over a step that leaves the
\* manager alone
TripKept == IF st_trip \in {"saved", "invalidated"} THEN st_trip ELSE "none"

\* lines 34-43
add_message ==
  /\ Len(session.messages) < MaxMessages
  /\ st_now < MaxNow
  /\ st_now' = st_now + 1
  /\ \E said \in Said, kwargs \in Kwargs :
       session' = [session EXCEPT !.messages = Append(@, Message(said, kwargs, st_now')),
                                  !.updated_at = st_now']
  /\ st_trip' = TripKept
  /\ st_history' = NoHistory
  /\ UNCHANGED <<st_file, st_cached, st_saved>>
  /\ StFrame

\* lines 31-32: the fields metadata and last_consolidated are assigned by the users of
\* a Session
SetFields ==
  /\ \E metadata \in Metadatas, last_consolidated \in 0..Len(session.messages) :
       /\ <<metadata, last_consolidated>> # <<session.metadata, session.last_consolidated>>
       /\ session' = [session EXCEPT !.metadata = metadata,
                                      !.last_consolidated = last_consolidated]
  /\ st_trip' = TripKept
  /\ st_history' = NoHistory
  /\ UNCHANGED <<st_file, st_cached, st_now, st_saved>>
  /\ StFrame

\* lines 45-47
GetHistory ==
  /\ \E max_messages \in 0..(MaxMessages + 1) :
       st_history' = [max_messages |-> max_messages,
                      entries |-> get_history(session.messages, max_messages)]
  /\ st_trip' = TripKept
  /\ UNCHANGED <<session, st_file, st_cached, st_now, st_saved>>
  /\ StFrame

\* lines 147-172: save(session); open or write may raise
StoreSave ==
  /\ \E o \in SaveOutcomes :
       IF o = "ok"
       THEN /\ st_file' = _save(session)
            /\ st_cached' = TRUE
            /\ st_trip' = "saved"
            /\ st_saved' = session
       ELSE /\ st_trip' = "none"
            /\ UNCHANGED <<st_file, st_cached, st_saved>>
  /\ st_history' = NoHistory
  /\ UNCHANGED <<session, st_now>>
  /\ StFrame

\* lines 174-176: invalidate(session.key)
StoreInvalidate ==
  /\ st_cached' = FALSE
  /\ st_trip' = IF st_trip \in {"saved", "invalidated"} THEN "invalidated" ELSE "none"
  /\ st_history' = NoHistory
  /\ UNCHANGED <<session, st_file, st_now, st_saved>>
  /\ StFrame

\* lines 75-106: get_or_create(session.key); the caller goes on with the session it
\* returns
StoreGetOrCreate ==
  /\ IF st_cached
     THEN UNCHANGED <<session, st_now>>
     ELSE /\ st_now < MaxNow
          /\ st_now' = st_now + 1
          /\ session' = IF st_file = <<>> THEN NewSession(session.key, st_now')
                         ELSE _load(session.key, st_file, st_now')
  /\ st_cached' = TRUE
  /\ st_trip' = IF st_trip = "invalidated" THEN "loaded" ELSE "none"
  /\ st_history' = NoHistory
  /\ UNCHANGED <<st_file, st_saved>>
  /\ StFrame

StoreNext == add_message \/ SetFields \/ StoreSave \/ StoreInvalidate \/ StoreGetOrCreate

StoreSpec == StoreInit /\ [][StoreNext]_vars

\* Session alone: messages are added and the history is read
HistoryNext == add_message \/ GetHistory

HistorySpec == StoreInit /\ [][HistoryNext]_vars

\* ---- the claims

\* C1: when start() has entered recovery, then by the backoff wait and before a new
\* handle is built it has called updater.stop, app.stop and app.shutdown, in this
\* order, on the handle it held, and the handle is None; also when a cleanup call fails.
C1_FullTeardownBeforeRetry ==
  (start_pc \in {"backoff", "loop_head"} /\ recov # "none" /\ recov_app # 0)
    => (_app = 0 /\ recov_td = TeardownOrder)

\* C2: at most one Application that was started and not torn down exists at any time.
C2_OneLiveHandle == Cardinality(LiveApps) <= 1

\* C3: no failure of a connection attempt ends start(): start() is left only after
\* the running flag has been cleared.
C3_ReturnsOnlyWhenStopped == start_pc \in {"returned", "raised"} => ~_running

\* C4: once stop() was requested during a backoff wait, start() builds no Application
\* and makes no platform call: it only finishes the sleep, reads the loop condition
\* and returns.
C4_StopInBackoffExits ==
  [][stop_in_backoff => (nApps' = nApps /\ _app' = 0
                         /\ start_pc' \in {"backoff", "loop_head", "returned"})]_vars

C4_Witness == stop_in_backoff /\ start_pc = "returned" /\ stop_pc = "returned"

\* C5: at the moment stop() returns the running flag and the ready flag are false, the
\* typing-task map is empty, no typing task is left running and the handle is None.
C5_StopPostcondition ==
  [][(stop_pc # "returned" /\ stop_pc' = "returned")
       => (/\ ~_running'
           /\ ~_polling_started'
           /\ _app' = 0
           /\ \A c \in Chats : _typing_tasks'[c] = 0
           /\ \A t \in Tasks : task_state'[t] # "run")]_vars

\* C6: of two consecutive connection attempts that fail with Conflict, with no
\* successful start_polling between them, the second backoff wait is greater than the
\* first and both are below the conflict cap.
C6_ConflictWaitsIncrease ==
  (Len(waits) = 2 /\ waits[1][1] = "conflict" /\ waits[2][1] = "conflict")
    => (waits[2][2] > waits[1][2] /\ waits[1][2] < ConflictCap /\ waits[2][2] < ConflictCap)

\* C7: at every failure count n >= 1 the conflict backoff is at least the generic
\* backoff, neither exceeds its cap (600 s, 300 s), and neither is smaller than the
\* backoff at n - 1.
C7_BackoffOrdered ==
  /\ (bk_conflict # -1 /\ bk_generic # -1) => bk_conflict >= bk_generic
  /\ bk_conflict # -1 => (bk_conflict <= 600 /\ bk_conflict >= bk_prev[1])
  /\ bk_generic # -1 => (bk_generic <= 300 /\ bk_generic >= bk_prev[2])

C7_Witness == bk_conflict = 600 /\ bk_generic = 300 /\ bk_prev = <<600, 256>>

\* C8: a send() that finds the handle None or the ready flag false at its entry, as
\* every send() does that begins during a backoff wait of start() or after stop() has
\* returned, returns at once and issues no platform send call.
C8_RefusedSendsNothing ==
  send_refusable => (send_pc = "returned" /\ send_attempted = {})

C8_Witness ==
  send_refusable /\ send_pc = "returned" /\ start_pc = "backoff" /\ _running

\* C9: send() issues no call on the handle once the ready flag has been cleared or
\* the cleanup of the handle has begun.
C9_NoSendAfterLeavingPolling == ~send_late

\* C10: when the HTML send of chunk i failed with an error that is not
\* markup-flavoured, send() has attempted every later chunk when it returns.
C10_LaterChunksAttempted ==
  send_pc = "returned"
    => \A i \in send_err : \A j \in (i + 1)..send_n : j \in send_attempted

\* the tiers of _safe_send_message in the order the claims name them
TierOrder == <<"html", "plain", "notice">>

C12_NonMarkupNotResent ==
  (Len(send_log) >= 1 /\ send_log[1][2] = "other")
    => (/\ send_log = <<<<"html", "other">>>>
        /\ Calls(send_log) = {1}
        /\ send_exc = "caught"
        /\ send_pc = "returned")

C12_Witness ==
  send_pc = "returned" /\ send_log = <<<<"html", "other">>>> /\ send_i = 2 /\ send_exc = "caught"

\* C13: from the entry of send() on, so before its first chunk is sent and after it has
\* returned, accepted or refused, no typing task that existed at the entry is
\* registered for the event's chat or running.
C13_SendStopsTyping ==
  send_pc # "idle"
    => (/\ _typing_tasks[send_chat] \notin 1..send_mark
        /\ \A t \in 1..send_mark : task_state[t] # "run")

\* C14: every typing task that is not cancelled and has not ended is the one
\* registered for its chat, so that at most one such task exists per chat.
C14_OneTypingTaskPerChat ==
  /\ \A t \in Tasks : task_state[t] = "run" => \E c \in Chats : _typing_tasks[c] = t
  /\ Cardinality({t \in Tasks : task_state[t] = "run"}) <= Cardinality(Chats)

C14_Witness ==
  /\ task_state[1] = "cancelled"
  /\ task_state[2] = "run"
  /\ _typing_tasks["c1"] = 2
  /\ hm_pc = "publish"
  /\ send_pc = "html"

\* C15: while the media of an update is fetched, downloaded or transcribed, the
\* typing task for the update's chat has been started.
C15_TypingBeforeMedia ==
  hm_pc \in {"get_file", "download", "transcribe"} => hm_typing

\* C16: no failure of get_file, of the download or of the transcription leaves the
\* handler as an exception; the handler goes on to forward the update, once, with the
\* placeholder for the media in its content.
C16_MediaFailureDegrades ==
  /\ hm_pc # "raised"
  /\ hm_failed => (hm_pc = "publish" /\ hm_forwards = 1 /\ hm_content = "failed")
  /\ hm_forwards <= 1

C16_Witness ==
  hm_failed /\ hm_pc = "publish" /\ hm_forwards = 1 /\ hm_content = "failed" /\ stop_pc = "idle"

\* C17: with no token configured start() returns at once: the running flag stays
\* false, no Application is built, start() never reaches a platform call and does not
\* raise.
C17_NoTokenNoStart ==
  ~token => (/\ ~_running
             /\ _app = 0
             /\ nApps = 0
             /\ start_pc \in {"idle", "returned"}
             /\ stop_pc \in {"idle", "returned"})

C17_Witness == ~token /\ start_pc = "returned" /\ ~_running /\ nApps = 0

\* C18: every chunk _split_long_message has produced is at most max_length long.
C18_ChunksWithinLimit ==
  \A k \in 1..Len(ck_chunks) : Len(ck_chunks[k]) <= ck_limit

\* C19: every iteration of the loop of _split_long_message consumes at least one
\* character and leaves the remaining text shorter than it found it.
C19_EachIterationShrinks ==
  ck_iter > 0 => (ck_split >= 1 /\ Len(ck_remaining) < ck_before)

\* a text is tag-balanced: every '<' and '>' belongs to a tag, every closing tag closes
\* the tag opened last, and no tag stays open
RECURSIVE Nested(_, _)
Nested(tags, stack) ==
  IF tags = <<>> THEN stack = <<>>
  ELSE IF Head(tags)[1]
  THEN /\ stack # <<>>
       /\ stack[Len(stack)] = Head(tags)[2]
       /\ Nested(Tail(tags), SubSeq(stack, 1, Len(stack) - 1))
  ELSE Nested(Tail(tags), Append(stack, Head(tags)[2]))

Balanced(text) ==
  /\ Cardinality({k \in 1..Len(text) : text[k] = "<"}) = Len(FindTags(text, 1))
  /\ Cardinality({k \in 1..Len(text) : text[k] = ">"}) = Len(FindTags(text, 1))
  /\ Nested(FindTags(text, 1), <<>>)

\* C20: of a tag-balanced text every chunk is tag-balanced by itself.
C20_ChunksBalanced ==
  Balanced(ck_text) => \A k \in 1..Len(ck_chunks) : Balanced(ck_chunks[k])

C20_Witness ==
  /\ ck_pc = "done"
  /\ Balanced(ck_text)
  /\ Len(ck_chunks) = 2
  /\ _get_unclosed_tags(Take(ck_text, ck_split)) = <<<<"b">>>>
  /\ SubSeq(ck_chunks[1], Len(ck_chunks[1]) - 3, Len(ck_chunks[1])) = <<"<", "/", "b", ">">>
  /\ Take(ck_chunks[2], 3) = <<"<", "b", ">">>

\* C21: of a non-empty text _split_long_message produces no empty chunk.
C21_NoEmptyChunk ==
  ck_text # <<>> => \A k \in 1..Len(ck_chunks) : ck_chunks[k] # <<>>

\* the text contains no tag
TagFree(text) == FindTags(text, 1) = <<>>

\* text is the chunks in their order, with nothing but whitespace between one chunk
\* and the next and after the last one
RECURSIVE Rejoins(_, _)
Rejoins(text, chunks) ==
  IF chunks = <<>> THEN text = <<>>
  ELSE /\ Take(text, Len(Head(chunks))) = Head(chunks)
       /\ Rejoins(LStrip(Drop(text, Len(Head(chunks)))), Tail(chunks))

\* C22: of a text without tags, the chunks of _split_long_message concatenated in
\* their order are the text with whitespace removed at the chunk boundaries only:
\* after every iteration the chunks made so far and the remaining text, and at the
\* return the chunks, make up the text, nothing else lost, doubled or moved.
C22_PlainTextPreserved ==
  TagFree(ck_text) =>
    /\ ck_pc = "loop" => Rejoins(ck_text, Append(ck_chunks, ck_remaining))
    /\ ck_pc = "done" => Rejoins(ck_text, ck_chunks)

\* three chunks, as in the scenario of the 9000 characters, with whitespace removed
C22_Witness ==
  /\ ck_pc = "done"
  /\ TagFree(ck_text)
  /\ Len(ck_chunks) = 3
  /\ Len(ck_chunks[1]) + Len(ck_chunks[2]) + Len(ck_chunks[3]) < Len(ck_text)

\* C23: a text no longer than max_length, the empty text and a text of exactly
\* max_length characters included, is returned as the only chunk, unchanged, and the
\* loop is not entered for it.
C23_ShortTextUnchanged ==
  Len(ck_text) <= ck_limit =>
    /\ ck_pc \in {"call", "done"}
    /\ ck_iter = 0
    /\ ck_pc = "done" => ck_chunks = <<ck_text>>

\* a text of exactly max_length characters that ends in whitespace and leaves a tag open
C23_Witness ==
  /\ ck_pc = "done"
  /\ Len(ck_text) = ck_limit
  /\ RStrip(ck_text) # ck_text
  /\ _get_unclosed_tags(ck_text) # <<>>
  /\ ck_chunks = <<ck_text>>

\* the tags of a text as <<is_closing, tag_name>>, from index i on: a tag runs from a
\* '<' to the next '>', its name is the letters after the '<' or the '</'; a '<' with
\* no '>' after it counts as a tag without a name
RECURSIVE HtmlTags(_, _)
HtmlTags(text, i) ==
  IF i > Len(text) THEN <<>>
  ELSE IF text[i] # "<" THEN HtmlTags(text, i + 1)
  ELSE LET e == FindFrom(text, <<">">>, i + 1)
           closing == StartsAt(text, i + 1, <<"/">>)
           ns == IF closing THEN i + 2 ELSE i + 1
       IN IF e = 0 THEN <<<<FALSE, <<>>>>>> \o HtmlTags(text, i + 1)
          ELSE <<<<closing, SubSeq(text, ns, Min(SkipWhile(text, ns, AlNum), e) - 1)>>>>
                 \o HtmlTags(text, e + 1)

SupportedTags == {<<"b">>, <<"i">>, <<"s">>, <<"a">>, <<"c", "o", "d", "e">>, <<"p", "r", "e">>}

\* only supported tags, every '>' ends a tag, every closing tag closes the tag opened
\* last, and no tag stays open
WellFormed(text) ==
  /\ \A k \in 1..Len(HtmlTags(text, 1)) : HtmlTags(text, 1)[k][2] \in SupportedTags
  /\ Cardinality({k \in 1..Len(text) : text[k] = ">"}) = Len(HtmlTags(text, 1))
  /\ Nested(HtmlTags(text, 1), <<>>)

\* C24: what _markdown_to_telegram_html returns is well-formed over the tags b, i, s,
\* a, code and pre: no other tag, every opened tag closed, the tags properly nested;
\* and the empty text gives the empty text.
C24_OutputWellFormed ==
  md_pc = "done" =>
    /\ md_in = <<>> => md_text = <<>>
    /\ WellFormed(md_text)

\* the fenced code blocks of a text from index i on: what stands between three
\* backticks and the next three backticks, paired from the left
RECURSIVE FencedBlocks(_, _)
FencedBlocks(text, i) ==
  IF i > Len(text) THEN <<>>
  ELSE IF StartsAt(text, i, Fence) /\ FindFrom(text, Fence, i + 3) # 0
  THEN <<SubSeq(text, i + 3, FindFrom(text, Fence, i + 3) - 1)>>
         \o FencedBlocks(text, FindFrom(text, Fence, i + 3) + 3)
  ELSE FencedBlocks(text, i + 1)

\* the text with every fenced code block replaced by one NUL
RECURSIVE WithoutFences(_, _)
WithoutFences(text, i) ==
  IF i > Len(text) THEN <<>>
  ELSE IF StartsAt(text, i, Fence) /\ FindFrom(text, Fence, i + 3) # 0
  THEN <<NUL>> \o WithoutFences(text, FindFrom(text, Fence, i + 3) + 3)
  ELSE <<text[i]>> \o WithoutFences(text, i + 1)

\* the inline code spans of a text from index i on: one or more characters between
\* a backtick and the next backtick, paired from the left
RECURSIVE InlineSpans(_, _)
InlineSpans(text, i) ==
  IF i > Len(text) THEN <<>>
  ELSE IF text[i] = Tick /\ FindFrom(text, <<Tick>>, i + 1) > i + 1
  THEN <<SubSeq(text, i + 1, FindFrom(text, <<Tick>>, i + 1) - 1)>>
         \o InlineSpans(text, FindFrom(text, <<Tick>>, i + 1) + 1)
  ELSE InlineSpans(text, i + 1)

\* the content of a fenced code block: what stands between the fences, without the
\* language line (a run of word characters ended by a line break) when there is one
ContentOf(inner) ==
  LET w == SkipWhile(inner, 1, Word)
  IN IF w <= Len(inner) /\ inner[w] = "\n" THEN SubSeq(inner, w + 1, Len(inner)) ELSE inner

Occurs(pat, text) == FindFrom(text, pat, 1) # 0

InPre(code) ==
  <<"<", "p", "r", "e", ">", "<", "c", "o", "d", "e", ">">> \o code
    \o <<"<", "/", "c", "o", "d", "e", ">", "<", "/", "p", "r", "e", ">">>

InCode(code) == <<"<", "c", "o", "d", "e", ">">> \o code \o <<"<", "/", "c", "o", "d", "e", ">">>

\* C25: the content of every fenced code block and of every inline code span of the
\* text stands in what _markdown_to_telegram_html returns, between its code tags,
\* literally but for &, < and > escaped once: no later step has changed it.
C25_CodeContentLiteral ==
  md_pc = "done" =>
    /\ \A k \in 1..Len(FencedBlocks(md_in, 1)) :
         Occurs(InPre(Escape(ContentOf(FencedBlocks(md_in, 1)[k]))), md_text)
    /\ \A k \in 1..Len(InlineSpans(WithoutFences(md_in, 1), 1)) :
         LET span == InlineSpans(WithoutFences(md_in, 1), 1)[k]
         IN (\A j \in 1..Len(span) : span[j] # NUL) => Occurs(InCode(Escape(span)), md_text)

\* C26: the cache of a SessionManager never holds more than max_cache_size sessions,
\* and the session get_or_create has evicted is not in the cache when it returns.
C26_CacheBounded ==
  /\ Len(_cache) <= max_cache_size
  /\ sm_evicted # NoKey => ~InCache(_cache, sm_evicted)

\* C27: the consecutive-failure counter of start() goes down only in the step in
\* which start_polling has returned without error, and a step that raises it raises
\* it by exactly one; so no failed connection attempt leaves it lower than it was.
C27_CounterResetOnPollStart ==
  [][/\ consecutive_failures' < consecutive_failures =>
          (start_pc = "start_polling" /\ updater_running')
     /\ consecutive_failures' > consecutive_failures =>
          consecutive_failures' = consecutive_failures + 1]_vars

\* C28: once stop() has been called, start() builds no further Application and, every
\* awaited call and sleep completing, returns in the end.
C28_StopEndsStart ==
  /\ [][stop_pc # "idle" => nApps' = nApps]_vars
  /\ (stop_pc # "idle") ~> (start_pc = "returned")

\* the last position in the window at which pat begins and which lies beyond seven
\* tenths of max_length, -1 for none
LastLate(window, pat, max_length) ==
  LET late == {p \in 0..(Len(window) - Len(pat)) :
                 SubSeq(window, p + 1, p + Len(pat)) = pat /\ 10 * p > 7 * max_length}
  IN IF late = {} THEN -1 ELSE CHOOSE p \in late : \A q \in late : q <= p

\* the split point by the priority of paragraph break, line break, space, max_length
PrioritySplit(remaining, max_length) ==
  LET window == Take(remaining, max_length)
      para == LastLate(window, <<"\n", "\n">>, max_length)
      line == LastLate(window, <<"\n">>, max_length)
      space == LastLate(window, <<" ">>, max_length)
  IN IF para # -1 THEN para + 2
     ELSE IF line # -1 THEN line + 1
     ELSE IF space # -1 THEN space + 1
     ELSE max_length

\* C29: in every iteration of _split_long_message on a text without tags the split
\* point is just after the last paragraph break of the window if that lies beyond 0.7
\* of max_length, else just after the last line break if that does, else just after
\* the last space if that does, else max_length; no candidate at or below 0.7 of
\* max_length is used.
C29_SplitPriority ==
  [][(ck_pc = "loop" /\ ck_iter' = ck_iter + 1 /\ TagFree(ck_text))
       => ck_split' = PrioritySplit(ck_remaining, ck_limit)]_vars

\* every '<' of the text is followed by a '>' before the next '<', and every '>' is
\* preceded by a '<' after the '>' before it: the text neither ends inside a tag nor
\* begins inside one
Paired(text) ==
  LET angles == SelectSeq(text, LAMBDA c : c \in {"<", ">"})
  IN /\ Len(angles) % 2 = 0
     /\ \A k \in 1..Len(angles) : angles[k] = (IF k % 2 = 1 THEN "<" ELSE ">")

\* C30: no chunk boundary of _split_long_message lies inside a tag: of a text whose
\* angle brackets are those of its tags, no chunk ends after a '<' without its '>',
\* and neither a chunk nor the text still to be split begins with the rest of a tag.
C30_NoSplitInsideTag ==
  Paired(ck_text) =>
    /\ \A k \in 1..Len(ck_chunks) : Paired(ck_chunks[k])
    /\ Paired(ck_remaining)

\* the first split position fell inside a tag and was moved back before its '<'
C30_Witness ==
  /\ ck_pc = "done"
  /\ ck_iter = 1
  /\ Len(ck_chunks) = 2
  /\ ck_split > 0
  /\ ck_split < FindSplit(ck_text, ck_limit)
  /\ ck_text[ck_split + 1] = "<"
  /\ Paired(ck_chunks[1]) /\ Paired(ck_chunks[2])

\* the characters of a text that are neither markup nor whitespace, in order, each with
\* the opening tags that enclose it, outermost first, written as they stand in the text
\* (attributes included); a closing tag ends the innermost open tag of its name
RECURSIVE Formatted(_, _, _)
Formatted(text, i, open) ==
  IF i > Len(text) THEN <<>>
  ELSE LET m == IF text[i] = "<" THEN MatchTag(text, i) ELSE <<0, FALSE, <<>>>>
       IN IF m[1] # 0
          THEN IF m[2]
               THEN IF open # <<>> /\ open[Len(open)][1] = m[3]
                    THEN Formatted(text, m[1] + 1, SubSeq(open, 1, Len(open) - 1))
                    ELSE Formatted(text, m[1] + 1, open)
               ELSE Formatted(text, m[1] + 1, Append(open, <<m[3], SubSeq(text, i, m[1])>>))
          ELSE IF text[i] \in Whitespace THEN Formatted(text, i + 1, open)
          ELSE <<<<text[i], open>>>> \o Formatted(text, i + 1, open)

RECURSIVE FormattedChunks(_)
FormattedChunks(chunks) ==
  IF chunks = <<>> THEN <<>>
  ELSE Formatted(Head(chunks), 1, <<>>) \o FormattedChunks(Tail(chunks))

\* C31: the chunks _split_long_message returns give every character of the text the
\* formatting it has in the text: the same enclosing tags, in the same order, with
\* the same attributes.
C31_FormattingKept ==
  ck_pc = "done" => FormattedChunks(ck_chunks) = Formatted(ck_text, 1, <<>>)

\* C33: once stop() has been called the ready flag does not become true again, and
\* in every state the ready flag being true implies that the running flag is true and
\* the handle is not None.
C33_ReadyImpliesRunning ==
  /\ [][(stop_pc # "idle" /\ ~_polling_started) => ~_polling_started']_vars
  /\ [](_polling_started => (_running /\ _app # 0))

\* C34: a session file, once written, is only ever written by saves of the same key,
\* and list_sessions reports for every file the key of the session saved in it.
C34_DistinctFiles ==
  /\ [][\A path \in SessionPaths :
          sm_files[path] # NoKey => sm_files'[path] = sm_files[path]]_vars
  /\ [](\A path \in SessionPaths : sm_files[path] # NoKey => ListedKey(path) = sm_files[path])

\* C32: after save(session), invalidate(key) and get_or_create(key) the session has the
\* key, the messages in their order, the metadata, last_consolidated and created_at of
\* the session that was saved; the first line of the file is the metadata header and
\* every message is one following line.
C32_RoundTrip ==
  st_trip = "loaded" =>
    /\ session.key = st_saved.key
    /\ session.messages = st_saved.messages
    /\ session.metadata = st_saved.metadata
    /\ session.last_consolidated = st_saved.last_consolidated
    /\ session.created_at = st_saved.created_at
    /\ Len(st_file) = 1 + Len(st_saved.messages)
    /\ st_file[1] = dumps(MetadataLine(st_saved))
    /\ \A k \in 1..Len(st_saved.messages) : st_file[k + 1] = dumps(st_saved.messages[k])

\* the messages reduced to role and content
Reduced(messages) ==
  [k \in 1..Len(messages) |-> [role |-> messages[k].val.role, content |-> messages[k].val.content]]

\* C35: get_history(max_messages) returns at most max_messages entries, the last ones
\* of the session in their order, each reduced to role and content; add_message leaves
\* the messages before the new one as they were.
C35_HistoryIsRecentTail ==
  /\ [](st_history # NoHistory =>
          LET all == Reduced(session.messages)
              n == Len(st_history.entries)
          IN /\ n <= st_history.max_messages
             /\ n = Min(st_history.max_messages, Len(all))
             /\ st_history.entries = SubSeq(all, Len(all) - n + 1, Len(all)))
  /\ [][Len(session'.messages) = Len(session.messages) + 1
          => SubSeq(session'.messages, 1, Len(session.messages)) = session.messages]_vars

====
